---- MODULE Spec2Model ----
(***************************************************************************)
(* Trust and secure-messaging core of the IPPOC mesh node.                 *)
(*                                                                         *)
(* Part I  models the standalone signed-packet admission path              *)
(*         (src/body/src/protocol.rs: ReplayCache, AdmissionManager).      *)
(* Part II models the mesh facade (src/body/mesh/src/mesh.rs: AiMesh) with *)
(*         its peer table (src/src/soma/mesh/src/peer.rs).                 *)
(***************************************************************************)
EXTENDS Integers, Sequences, FiniteSets, TLC

(***************************************************************************)
(* Generic helpers for partial maps (Rust HashMap).                        *)
(***************************************************************************)
EmptyMap == [x \in {} |-> 0]

Put(f, k, v) == [x \in (DOMAIN f) \cup {k} |-> IF x = k THEN v ELSE f[x]]

Restrict(f, S) == [x \in S |-> f[x]]

(***************************************************************************)
(*                 PART I : AdmissionManager (protocol.rs)                 *)
(***************************************************************************)

\* ---- bounds of the admission model ----
MaxTicks == 1
MaxNonces == 2
MaxCount == 2
\* bounds of the promotion scenario (ten admitted packets are needed)
MaxSignedNonces == 11
MaxSignedCount == 11

\* ---- program constants ----
ReplayWindow == 300
StartTime == 1000

LocalId == "idL"
AdmIds == {"idL", "idP"}
\* Ed25519 key pairs, named by their owner; "kBad" is a byte string that is
\* not a valid 32-byte verifying key.
AdmKeys == {"kL", "kP", "kE"}
KeyOf(id) == IF id = "idL" THEN "kL" ELSE "kP"
BadKey == "kBad"
TickSteps == {ReplayWindow - 1, ReplayWindow}

VARIABLES
    now,            \* SystemTime::now() in seconds
    ticks,          \* number of clock advances so far (bounds the model)
    seen_nonces,    \* ReplayCache.seen_nonces : nonce -> timestamp
    peer_registry,  \* AdmissionManager.peer_registry : node id -> PeerState
    admitLast       \* the last should_admit call: packet, replay verdict, result

admVars == <<now, ticks, seen_nonces, peer_registry, admitLast>>

VARIABLES
    peers,          \* AiMesh.peers : node -> (peer id -> Peer)
    replay_cache,   \* AiMesh.replay_cache : node -> ReplayCache
    outbox,         \* the mpsc outbox of each node
    inbox,          \* what each node's inbox broadcast channel has carried
    rx,             \* the transport's receive queue (start_networking)
    running,        \* AiMesh.running
    reputation,     \* reputation.json of each node: id -> (level, score)
    fresh,          \* the next value rand::random() / getrandom yields
    injected,       \* attacker messages so far
    added,          \* add_peer calls so far
    sequence,       \* AiMesh.sequence : the message sequence counter
    erred,          \* node -> some handle_message call returned Err
    answered,       \* node -> the senders whose Syn it answered with a SynAck
    synSent,        \* node -> the (peer, nonce) pairs of the Syns it sent
    run             \* progress of a Discovery/Syn/SynAck/Ack sequence

meshVars ==
    <<peers, replay_cache, outbox, inbox, rx, running, reputation, fresh,
      injected, added, sequence, erred, answered, synSent, run>>

VARIABLES
    unit_peer,      \* one Peer object, driven through its own methods
    unit_last,      \* the last method called on it: name, argument, peer before
    unit_cache,     \* one count-bounded ReplayCache (mesh.rs)
    unit_accepted,  \* the nonces for which its check_and_add returned true
    unit_call,      \* its last check_and_add: nonce, result, cache before
    unit_window,    \* one time-bounded ReplayCache (protocol.rs)
    unit_recorded,  \* nonce -> time of its last presentation answered false
    unit_replay,    \* its last is_replay: nonce, time, result, records before
    disk,           \* <base_dir>/nodes : node directory -> identity.key
    hardware,       \* the hardware fingerprint of the machine
    boot            \* the last load_or_create_identity: result, disk before

peerVars == <<unit_peer, unit_last>>

cacheVars == <<unit_cache, unit_accepted, unit_call>>

windowVars == <<unit_window, unit_recorded, unit_replay>>

bootVars == <<disk, hardware, boot>>

VARIABLES
    task,           \* task -> the AiMesh call it runs and where it stands in it
    chan,           \* the messages queued on the outbox channel
    lock_peers,     \* the task holding the write lock of AiMesh.peers
    lock_running,   \* the task holding the write lock of AiMesh.running
    net_running,    \* AiMesh.running
    calls,          \* calls started
    made,           \* messages built
    enqueued,       \* every message the channel accepted, in order
    received,       \* every message the receiver took, in order
    returned,       \* the messages whose send has returned
    unit_sequence,  \* AiMesh.sequence
    taken           \* the values next_sequence returned, in order

taskVars ==
    <<task, chan, lock_peers, lock_running, net_running, calls, made,
      enqueued, received, returned, unit_sequence, taken>>

VARIABLES
    identities,     \* UnifiedTrustManager.identities : node_id -> trust_level
    evaluation      \* the last evaluate_trust call and what it returned

trustVars == <<identities, evaluation>>

VARIABLES
    files,          \* key file -> whether it exists, its mode, its content
    persisting      \* key file -> where the code that writes it stands

fileVars == <<files, persisting>>

VARIABLES
    handling,       \* task -> the handle_message call it runs: position, nonce
    dispatched      \* the nonces of the messages dispatched, in order

handlerVars == <<handling, dispatched>>

VARIABLES
    rm_pc,          \* caller -> where it stands in its resource manager call
    rm_lock,        \* lock of the resource manager -> the caller holding it
    pool,           \* resource_pools: the units available
    stored,         \* allocations: the number of stored allocations
    requested       \* allocate_resource calls started

resourceVars == <<rm_pc, rm_lock, pool, stored, requested>>

unitVars ==
    <<peerVars, cacheVars, windowVars, bootVars, taskVars, trustVars,
      fileVars, handlerVars, resourceVars>>

NoCall ==
    [called |-> FALSE, node_id |-> "none", replay |-> FALSE, valid |-> FALSE,
     result |-> FALSE]

\* SignedPacket::sign : the signature binds payload || timestamp || nonce
Sign(key, payload, timestamp, nonce) ==
    [wellformed |-> TRUE, by |-> key, payload |-> payload,
     timestamp |-> timestamp, nonce |-> nonce]

\* a signature field that is not 64 bytes long
MalformedSig ==
    [wellformed |-> FALSE, by |-> "none", payload |-> "none",
     timestamp |-> 0, nonce |-> 0]

\* Ed25519 verification of `sig` over the packet's canonical material
SigMatches(packet, public_key) ==
    /\ packet.signature.by = public_key
    /\ packet.signature.payload = packet.payload
    /\ packet.signature.timestamp = packet.timestamp
    /\ packet.signature.nonce = packet.nonce

InWindow(packet, t) ==
    ~(packet.timestamp < t - ReplayWindow \/ packet.timestamp > t + ReplayWindow)

\* SignedPacket::verify : "Err", "false" (Ok(false)) or "true" (Ok(true))
Verify(packet, public_key, t) ==
    IF ~InWindow(packet, t) THEN "false"
    ELSE IF public_key = BadKey THEN "Err"
    ELSE IF ~packet.signature.wellformed THEN "Err"
    ELSE IF ~SigMatches(packet, public_key) THEN "false"
    ELSE "true"

\* ReplayCache::is_replay, step 1: prune entries older than the window
PruneMut(cache, t) ==
    Restrict(cache, {n \in DOMAIN cache : cache[n] >= t - ReplayWindow})

Prune(cache, t) ==
    Restrict(cache, {n \in DOMAIN cache : cache[n] > t - ReplayWindow})

\* ReplayCache::is_replay : [replay, cache]
IsReplay(cache, nonce, t) ==
    LET pruned == Prune(cache, t) IN
    IF nonce \in DOMAIN pruned
    THEN [replay |-> TRUE, cache |-> pruned]
    ELSE [replay |-> FALSE, cache |-> Put(pruned, nonce, t)]

\* AdmissionManager::penalize
Penalize(registry, node_id) ==
    IF node_id \in DOMAIN registry
    THEN [registry EXCEPT ![node_id].trust_level = "Rejected"]
    ELSE registry

\* should_admit step 3
IsRejectedMut(state) == FALSE

IsRejected(state) == state.trust_level = "Rejected"

\* should_admit step 5: promotion
PromoteMut(state) ==
    IF state.trust_level = "New" /\ state.packet_count > 10
    THEN [state EXCEPT !.trust_level = "Probation"]
    ELSE state

Promote(state) ==
    IF state.trust_level = "New" /\ state.packet_count >= 10
    THEN [state EXCEPT !.trust_level = "Probation"]
    ELSE state

\* the None arm of should_admit: an id that is not in the registry
AdmitUnknownMut(id) == TRUE

AdmitUnknown(id) == id = LocalId

\* AdmissionManager::should_admit steps 2..5 (after the replay check)
AdmitKnown(registry, packet, t) ==
    LET id == packet.node_id IN
    IF id \notin DOMAIN registry
    THEN [admit |-> AdmitUnknown(id), registry |-> registry]
    ELSE IF IsRejected(registry[id])
    THEN [admit |-> FALSE, registry |-> registry]
    ELSE IF Verify(packet, registry[id].public_key, t) = "Err"
    THEN [admit |-> FALSE,
          registry |-> [registry EXCEPT ![id].trust_level = "Rejected"]]
    ELSE [admit |-> TRUE,
          registry |-> [registry EXCEPT ![id] =
              Promote([@ EXCEPT !.packet_count = @ + 1, !.last_seen = t])]]

\* AdmissionManager::should_admit : [admit, registry, cache, replay]
ShouldAdmitFn(registry, cache, packet, t) ==
    LET r == IsReplay(cache, packet.nonce, t) IN
    IF r.replay
    THEN [admit |-> FALSE, registry |-> Penalize(registry, packet.node_id),
          cache |-> r.cache, replay |-> TRUE]
    ELSE LET a == AdmitKnown(registry, packet, t) IN
         [admit |-> a.admit, registry |-> a.registry,
          cache |-> r.cache, replay |-> FALSE]

\* The packets offered to should_admit.  Nonces are interchangeable within
\* three classes, each represented by its least member: not tracked, tracked
\* and inside the window, tracked but expired (pruned by the next call).
Least(S) == IF S = {} THEN {} ELSE {CHOOSE n \in S : \A m \in S : n <= m}

NonceChoices(cache, t, universe) ==
    LET live == DOMAIN Prune(cache, t) IN
    Least(universe \ DOMAIN cache) \cup Least(live)
        \cup Least((DOMAIN cache) \ live)

Timestamps(t) == {t, t - ReplayWindow - 1, t + ReplayWindow + 1}

\* signed by the sender named in the header, signed by somebody else (a
\* forgery), or not a 64-byte signature at all
Signatures(id, payload, timestamp, nonce) ==
    {Sign(KeyOf(id), payload, timestamp, nonce),
     Sign("kE", payload, timestamp, nonce), MalformedSig}

Packets(cache, t) ==
    UNION { UNION { { [node_id |-> id, payload |-> "m", timestamp |-> ts,
                       nonce |-> n, signature |-> s]
                      : s \in Signatures(id, "m", ts, n) }
                    : ts \in Timestamps(t) }
            : <<id, n>> \in AdmIds \X NonceChoices(cache, t, 1..MaxNonces) }

\* SignedPacket::sign(node_id, key, payload) at time t, with the sender's own
\* key, under each nonce class
SignedPackets(cache, t) ==
    { [node_id |-> "idP", payload |-> "m", timestamp |-> t, nonce |-> n,
       signature |-> Sign("kP", "m", t, n)]
      : n \in NonceChoices(cache, t, 1..MaxSignedNonces) }

\* the packet is one SignedPacket::sign(node_id, key, payload) would produce
\* at time t for the key registered under its node id
ValidlySigned(registry, packet, t) ==
    /\ packet.node_id \in DOMAIN registry
    /\ InWindow(packet, t)
    /\ packet.signature.wellformed
    /\ SigMatches(packet, registry[packet.node_id].public_key)

AdmInit ==
    /\ now = StartTime
    /\ ticks = 0
    /\ seen_nonces = EmptyMap
    /\ peer_registry = EmptyMap
    /\ admitLast = NoCall

\* the clock advances
Tick ==
    /\ ticks < MaxTicks
    /\ \E d \in TickSteps : now' = now + d
    /\ ticks' = ticks + 1
    /\ admitLast' = NoCall
    /\ UNCHANGED <<seen_nonces, peer_registry>>
    /\ UNCHANGED <<meshVars, unitVars>>

\* main.rs: admission.pin_key(node_id, signing_public), called once at boot
\* for the local node
PinKey ==
    /\ peer_registry = EmptyMap /\ seen_nonces = EmptyMap
    /\ peer_registry' = Put(peer_registry, LocalId,
            [public_key |-> "kL", trust_level |-> "System",
             last_seen |-> now, packet_count |-> 0])
    /\ admitLast' = NoCall
    /\ UNCHANGED <<now, ticks, seen_nonces>>
    /\ UNCHANGED <<meshVars, unitVars>>

\* AdmissionManager::register_handshake(node_id, public_key)
RegisterHandshake ==
    /\ \E key \in {"kP", BadKey} :
          peer_registry' = Put(peer_registry, "idP",
              [public_key |-> key, trust_level |-> "New",
               last_seen |-> now, packet_count |-> 0])
    /\ admitLast' = NoCall
    /\ UNCHANGED <<now, ticks, seen_nonces>>
    /\ UNCHANGED <<meshVars, unitVars>>

\* AdmissionManager::should_admit(packet), for a packet of `packets`
AdmitStep(packets, cap) ==
    \E packet \in packets :
      \E r \in {ShouldAdmitFn(peer_registry, seen_nonces, packet, now)} :
        /\ \A id \in DOMAIN r.registry : r.registry[id].packet_count <= cap
        /\ peer_registry' = r.registry
        /\ seen_nonces' = r.cache
        /\ admitLast' = [called |-> TRUE, node_id |-> packet.node_id,
                         replay |-> r.replay,
                         valid |-> ValidlySigned(peer_registry, packet, now),
                         result |-> r.admit]
        /\ UNCHANGED <<now, ticks>>
        /\ UNCHANGED <<meshVars, unitVars>>

\* should_admit on an arbitrary packet (any sender, signature, timestamp)
ShouldAdmit == AdmitStep(Packets(seen_nonces, now), MaxCount)

\* should_admit on a packet the registered peer signed itself
AdmitSigned == AdmitStep(SignedPackets(seen_nonces, now), MaxSignedCount)

(***************************************************************************)
(*                 PART II : AiMesh (mesh.rs, peer.rs)                     *)
(***************************************************************************)

\* ---- bounds of the mesh model ----
MaxFresh == 5       \* random values drawn (envelope and handshake nonces)
MaxInject == 1      \* messages injected by a network attacker
MaxAdds == 1        \* add_peer calls made by the application
OutboxCap == 2      \* mpsc channel to the transport writer (100 in the code)
Capacity == 2       \* ReplayCache capacity (1000 in the code)
InboxCap == 2       \* broadcast channel of the inbox (100 in the code)
RxCap == 1          \* mpsc channel of the transport (100 in the code)
MaxSequence == 1    \* Direct messages one node sends

\* ---- TrustLevel (peer.rs) ----
Blacklisted == -1
Unknown == 0
Discovered == 1
Authenticated == 2
Trusted == 3
System == 4

\* Two nodes run the mesh; E is a network attacker with its own key pair.
Nodes == {"A", "B"}
Principals == {"A", "B", "E"}
Other(n) == IF n = "A" THEN "B" ELSE "A"

\* public keys, named by their owner
SPub(p) == <<"spk", p>>
XPub(p) == <<"xpk", p>>
\* hex(sha256(signing_public)): an injective function of the key
NodeId(signing_public) == <<"sha256", signing_public>>
NoId == <<"none">>
NoKey == <<"none">>

\* NodeSecrets::identity
Identity(p) ==
    [id |-> NodeId(SPub(p)), exchange_public |-> XPub(p),
     signing_public |-> SPub(p)]

Ids == {Identity(p).id : p \in Principals}

\* NodeSecrets::derive_shared of node n: X25519 then HKDF.  The key depends
\* on the two key pairs only, whichever side derives it.
NoSecret == {}
DeriveShared(n, peer_public) == {XPub(n), peer_public}

\* crypto.rs encrypt_message / decrypt_message (AES-256-GCM); a plaintext is
\* its length and its content
NoChallenge == [present |-> FALSE, key |-> {}, len |-> 0, val |-> 0]

EncryptMessage(secret, len, val) ==
    [present |-> TRUE, key |-> secret, len |-> len, val |-> val]

GarbageCipher == [present |-> TRUE, key |-> {NoKey}, len |-> 0, val |-> 0]

DecryptMessage(secret, cipher) ==
    IF cipher.key = secret
    THEN [ok |-> TRUE, len |-> cipher.len, val |-> cipher.val]
    ELSE [ok |-> FALSE, len |-> 0, val |-> 0]

\* ---- Peer (peer.rs) ----
PeerNew(identity) ==
    [id |-> identity.id, exchange_public |-> identity.exchange_public,
     signing_public |-> identity.signing_public, status |-> "Discovered",
     trust_level |-> Discovered, shared_secret |-> NoSecret,
     trust_score |-> 50]

SetSharedSecret(peer, secret) ==
    [peer EXCEPT !.shared_secret = secret, !.status = "Connected"]

SetTrustLevel(peer, level) == [peer EXCEPT !.trust_level = level]

AuthenticateMut(peer) == peer

Authenticate(peer) ==
    IF peer.trust_level < Authenticated
    THEN [peer EXCEPT !.trust_level = Authenticated, !.status = "Connected"]
    ELSE peer

Blacklist(peer) ==
    [peer EXCEPT !.trust_level = Blacklisted, !.status = "Blocked"]

\* the range of i8, and the casts `as i8`, `as i16`, `as u8`
I8Min == -128
I8Max == 127
I8 == I8Min .. I8Max
AsI8(x) == ((x + 128) % 256) - 128
AsI16(x) == ((x + 32768) % 65536) - 32768
AsU8(x) == x % 256

\* i16::clamp
ClampMut(x, lo, hi) == x

Clamp(x, lo, hi) == IF x < lo THEN lo ELSE IF x > hi THEN hi ELSE x

\* Peer::update_trust: the sum is formed in i16 and clamped, then cast to u8
UpdateTrustMut(peer, delta) ==
    LET new_score == AsI16(AsI16(peer.trust_score) + AsI16(delta))
        score == AsU8(Clamp(new_score, 0, 100)) IN
    IF peer.trust_level = Discovered /\ score >= 80
    THEN [peer EXCEPT !.trust_score = score, !.trust_level = Trusted]
    ELSE [peer EXCEPT !.trust_score = score]

UpdateTrust(peer, delta) ==
    LET new_score == AsI16(AsI16(peer.trust_score) + AsI16(delta))
        score == AsU8(Clamp(new_score, 0, 100)) IN
    IF peer.trust_level = Authenticated /\ score >= 80
    THEN [peer EXCEPT !.trust_score = score, !.trust_level = Trusted]
    ELSE [peer EXCEPT !.trust_score = score]

\* PeerTable::upsert
Upsert(table, peer) == Put(table, peer.id, peer)

\* ---- messages (messages.rs) ----
Payload(kind, id, xp, sp, nonce, challenge) ==
    [kind |-> kind, id |-> id, exchange_public |-> xp, signing_public |-> sp,
     nonce |-> nonce, challenge |-> challenge]

\* Peer::to_discovery_info / AiMesh::announce
DiscoveryInfo(identity) ==
    Payload("Discovery", identity.id, identity.exchange_public,
            identity.signing_public, 0, NoChallenge)

\* HandshakeMessage {kind, exchange_public, signing_public, nonce, challenge}
HandshakeMessage(kind, identity, nonce, challenge) ==
    Payload(kind, NoId, identity.exchange_public, identity.signing_public,
            nonce, challenge)

ThoughtPayload == Payload("Thought", NoId, NoKey, NoKey, 0, NoChallenge)

\* the payload of a Direct message: the JSON content (carried in the nonce
\* slot), or its AEAD ciphertext (carried in the challenge slot)
DirectPlain(content) ==
    Payload("Direct", NoId, NoKey, NoKey, content, NoChallenge)

DirectCipher(secret, content) ==
    Payload("Direct", NoId, NoKey, NoKey, 0,
            EncryptMessage(secret, 1, content))

\* msg.signature: empty (String::new()), 64 bytes that verify under no key,
\* or hex(secrets.sign(payload))
NoSig == [kind |-> "none", by |-> NoKey, over |-> ThoughtPayload]
GarbageSig == [kind |-> "garbage", by |-> NoKey, over |-> ThoughtPayload]
SignBy(p, payload) == [kind |-> "sig", by |-> SPub(p), over |-> payload]

\* crypto.rs verify_signature
VerifySignature(signing_public, payload, sig) ==
    sig.kind = "sig" /\ sig.by = signing_public /\ sig.over = payload

\* hex::decode(&msg.signature) gives 64 bytes
IsSig64(sig) == sig.kind \in {"sig", "garbage"}

\* AiMessage envelope
AiMessage(msg_type, sender, recipient, payload, signature, nonce) ==
    [msg_type |-> msg_type, sender |-> sender, recipient |-> recipient,
     payload |-> payload, signature |-> signature, sequence |-> 0,
     nonce |-> nonce]

\* AiMessage::handshake, signed by node n
SignedHandshake(n, recipient, hs, nonce) ==
    AiMessage("Handshake", Identity(n).id, recipient, hs, SignBy(n, hs), nonce)

\* ---- ReplayCache, count-bounded (mesh.rs) ----
NewCache == [seen |-> {}, order |-> <<>>]

\* ReplayCache::check_and_add, the eviction: at capacity, pop the front of
\* the queue and remove it from the set
EvictMut(cache) ==
    IF Len(cache.order) >= Capacity /\ cache.order # <<>>
    THEN [seen |-> cache.seen \ {cache.order[Len(cache.order)]},
          order |-> SubSeq(cache.order, 1, Len(cache.order) - 1)]
    ELSE cache

Evict(cache) ==
    IF Len(cache.order) >= Capacity /\ cache.order # <<>>
    THEN [seen |-> cache.seen \ {Head(cache.order)},
          order |-> Tail(cache.order)]
    ELSE cache

\* ReplayCache::check_and_add : [unique, cache]
CheckAndAddMut(cache, nonce) ==
    [unique |-> TRUE,
     cache |-> [seen |-> cache.seen \cup {nonce},
                order |-> Append(cache.order, nonce)]]

CheckAndAdd(cache, nonce) ==
    IF nonce \in cache.seen
    THEN [unique |-> FALSE, cache |-> cache]
    ELSE LET evicted == Evict(cache)
         IN [unique |-> TRUE,
             cache |-> [seen |-> evicted.seen \cup {nonce},
                        order |-> Append(evicted.order, nonce)]]

\* ReputationManager::save : what reputation.json holds for a peer table
Snapshot(table) ==
    [id \in DOMAIN table |->
        [trust_level |-> table[id].trust_level,
         trust_score |-> table[id].trust_score]]

\* a key whose hex string decodes to a byte string that is not 32 bytes
ShortKey == <<"short">>

\* arr.copy_from_slice(&b) on a [u8; 32]: panics unless b has 32 bytes
CopiesInto32(key) == key # ShortKey

\* ---- handle_discovery ----
HandleDiscovery(n, table, msg) ==
    LET info == msg.payload
        peer == SetSharedSecret(
                    PeerNew([id |-> info.id,
                             exchange_public |-> info.exchange_public,
                             signing_public |-> info.signing_public]),
                    DeriveShared(n, info.exchange_public))
    IN IF /\ CopiesInto32(info.exchange_public)
          /\ CopiesInto32(info.signing_public)
       THEN [peers |-> Upsert(table, peer), reply |-> <<>>, res |-> "Ok"]
       ELSE [peers |-> table, reply |-> <<>>, res |-> "Panic"]

\* handle_handshake, Syn arm: hex(sha256(signing_public)) == msg.sender
DerivedIdMatchesMut(hs, sender) == TRUE

DerivedIdMatches(hs, sender) == NodeId(hs.signing_public) = sender

\* ---- handle_handshake ; fr is the value the random source yields ----
HandleHandshake(n, table, msg, fr) ==
    LET hs == msg.payload
        same == [peers |-> table, reply |-> <<>>, res |-> "Ok"]
    IN
    IF hs.kind = "Syn" THEN
        IF ~DerivedIdMatches(hs, msg.sender) THEN same
        ELSE LET shared == DeriveShared(n, hs.exchange_public)
                 peer == SetTrustLevel(
                             SetSharedSecret(
                                 PeerNew([id |-> msg.sender,
                                          exchange_public |-> hs.exchange_public,
                                          signing_public |-> hs.signing_public]),
                                 shared),
                             Discovered)
                 resp_hs == HandshakeMessage("SynAck", Identity(n), fr,
                                EncryptMessage(shared, 16, hs.nonce))
             IN [peers |-> Upsert(table, peer),
                 reply |-> <<SignedHandshake(n, msg.sender, resp_hs, fr)>>,
                 res |-> "Ok"]
    ELSE IF hs.kind = "SynAck" THEN
        IF /\ msg.sender \in DOMAIN table
           /\ table[msg.sender].shared_secret # NoSecret
           /\ hs.challenge.present
        THEN LET decrypted_nonce ==
                     DecryptMessage(table[msg.sender].shared_secret,
                                    hs.challenge)
                 resp_hs == HandshakeMessage("Ack", Identity(n), hs.nonce,
                                             NoChallenge)
             IN IF ~decrypted_nonce.ok
                THEN [peers |-> table, reply |-> <<>>, res |-> "Err"]
                ELSE IF decrypted_nonce.len # 16 THEN same
                ELSE [peers |-> [table EXCEPT
                                   ![msg.sender] = Authenticate(@)],
                      reply |-> <<SignedHandshake(n, msg.sender, resp_hs,
                                                  fr)>>,
                      res |-> "Ok"]
        ELSE same
    ELSE \* Ack
        IF msg.sender \in DOMAIN table
        THEN [peers |-> [table EXCEPT ![msg.sender] = Authenticate(@)],
              reply |-> <<>>, res |-> "Ok"]
        ELSE same

\* ---- handle_direct ----
HandleDirect(table, msg) ==
    IF /\ msg.sender \in DOMAIN table
       /\ table[msg.sender].shared_secret # NoSecret
       /\ ~DecryptMessage(table[msg.sender].shared_secret,
                          msg.payload.challenge).ok
    THEN [inbox |-> <<>>, res |-> "Err"]
    ELSE [inbox |-> <<msg>>, res |-> "Ok"]

\* the reputation filter of handle_message
LowReputationMut(table, sender) ==
    /\ sender \in DOMAIN table
    /\ table[sender].trust_level = Blacklisted

LowReputation(table, sender) ==
    /\ sender \in DOMAIN table
    /\ \/ table[sender].trust_level = Blacklisted
       \/ table[sender].trust_score < 10

\* the signature check of handle_message: made only for a known sender and
\* a signature that decodes to 64 bytes
BadSignature(table, msg) ==
    /\ msg.sender \in DOMAIN table
    /\ IsSig64(msg.signature)
    /\ ~VerifySignature(table[msg.sender].signing_public, msg.payload,
                        msg.signature)

\* ---- handle_message, as a function of the node's state ----
\* passed: the three checks let the message through; saved: the reputation
\* file was rewritten; inbox: what was sent on the inbox channel
HandleMessage(n, table, cache, msg, fr) ==
    LET dropped == [peers |-> table, cache |-> cache, reply |-> <<>>,
                    inbox |-> <<>>, passed |-> FALSE, saved |-> FALSE,
                    res |-> "Ok"]
    IN
    IF LowReputation(table, msg.sender) THEN dropped
    ELSE IF BadSignature(table, msg) THEN dropped
    ELSE LET c == CheckAndAdd(cache, msg.nonce) IN
         IF ~c.unique THEN dropped
         ELSE IF msg.msg_type = "Discovery" THEN
                  LET r == HandleDiscovery(n, table, msg) IN
                  [peers |-> r.peers, cache |-> c.cache, reply |-> r.reply,
                   inbox |-> <<>>, passed |-> TRUE,
                   saved |-> r.res # "Panic", res |-> r.res]
         ELSE IF msg.msg_type = "Handshake" THEN
                  LET r == HandleHandshake(n, table, msg, fr) IN
                  [peers |-> r.peers, cache |-> c.cache, reply |-> r.reply,
                   inbox |-> <<>>, passed |-> TRUE, saved |-> TRUE,
                   res |-> r.res]
         ELSE IF msg.msg_type = "Direct" THEN
                  LET r == IF msg.recipient = Identity(n).id
                           THEN HandleDirect(table, msg)
                           ELSE [inbox |-> <<>>, res |-> "Ok"] IN
                  [peers |-> table, cache |-> c.cache, reply |-> <<>>,
                   inbox |-> r.inbox, passed |-> TRUE, saved |-> TRUE,
                   res |-> r.res]
         ELSE \* Thought | Broadcast
                  [peers |-> table, cache |-> c.cache, reply |-> <<>>,
                   inbox |-> <<msg>>, passed |-> TRUE, saved |-> TRUE,
                   res |-> "Ok"]

\* ---- what a network attacker can put on the wire for node n ----
\* It knows every public key, its own secrets, and the nonces n has seen.
Least1(S) == IF S = {} THEN {} ELSE {CHOOSE x \in S : \A y \in S : x <= y}

ForgedPayloads(n) ==
    {DiscoveryInfo([id |-> Identity(p).id, exchange_public |-> XPub(q),
                    signing_public |-> SPub(q)]) :
        p \in Principals, q \in {"E"}} \cup
    {DiscoveryInfo(Identity(p)) : p \in Principals \ {n}} \cup
    {HandshakeMessage("Syn", [exchange_public |-> XPub(x[2]),
                              signing_public |-> SPub(x[1])], 0,
                      NoChallenge) :
        x \in {y \in (Principals \ {n}) \X Principals :
                  y[2] \in {y[1], "E"}}} \cup
    {HandshakeMessage("SynAck", Identity("E"), 0, c) :
        c \in {NoChallenge, GarbageCipher,
               EncryptMessage(DeriveShared(n, XPub("E")), 16, 0),
               EncryptMessage(DeriveShared(n, XPub("E")), 8, 0)}} \cup
    {HandshakeMessage("Ack", Identity("E"), 0, NoChallenge)} \cup
    {ThoughtPayload}

MsgType(payload) ==
    IF payload.kind = "Discovery" THEN "Discovery"
    ELSE IF payload.kind = "Thought" THEN "Thought"
    ELSE "Handshake"

Forged(n) ==
    {AiMessage(MsgType(x[1]), x[2], Identity(n).id, x[1], x[3], x[4]) :
        x \in ForgedPayloads(n) \X (Ids \ {Identity(n).id})
               \X {NoSig, GarbageSig}
               \X ({fresh} \cup Least1(replay_cache[n].seen))} \cup
    {AiMessage(MsgType(x[1]), x[2], Identity(n).id, x[1],
               SignBy("E", x[1]), fresh) :
        x \in ForgedPayloads(n) \X (Ids \ {Identity(n).id})}

\* what a remote connection writes to the transport of node n
TransportMessages(n) ==
    {m \in Forged(n) : m.msg_type = "Thought" /\ m.nonce = fresh}

\* the message the other node's writer is about to send
InFlight(n) ==
    IF outbox[Other(n)] # <<>> THEN {Head(outbox[Other(n)])} ELSE {}

Candidates(n) == Forged(n) \cup InFlight(n)

\* broadcast channel: the oldest entry is lost when the buffer is full
InboxSend(buf, msgs) ==
    LET all == buf \o msgs IN
    IF Len(all) > InboxCap THEN Tail(all) ELSE all

NoMsg == AiMessage("Thought", NoId, NoId, ThoughtPayload, NoSig, 0)
NoRun == [phase |-> 0, a |-> "A", b |-> "B", expect |-> NoMsg]

\* how a delivery from node o to node n moves the tracked sequence
RunAfterDeliver(o, n, msg, out) ==
    IF msg.msg_type = "Discovery" /\ out.passed
    THEN [phase |-> 1, a |-> n, b |-> o, expect |-> NoMsg]
    ELSE IF /\ run.phase \in {2, 4}
            /\ o = run.a /\ n = run.b /\ msg = run.expect
    THEN IF run.phase = 4
         THEN [run EXCEPT !.phase = 5, !.expect = NoMsg]
         ELSE IF out.reply # <<>>
              THEN [run EXCEPT !.phase = 3, !.expect = out.reply[1]]
              ELSE NoRun
    ELSE IF /\ run.phase = 3
            /\ o = run.b /\ n = run.a /\ msg = run.expect
            /\ out.reply # <<>>
    THEN [run EXCEPT !.phase = 4, !.expect = out.reply[1]]
    ELSE NoRun

MeshInit ==
    /\ peers = [n \in Nodes |-> EmptyMap]
    /\ replay_cache = [n \in Nodes |-> NewCache]
    /\ outbox = [n \in Nodes |-> <<>>]
    /\ inbox = [n \in Nodes |-> <<>>]
    /\ rx = [n \in Nodes |-> <<>>]
    /\ running = [n \in Nodes |-> FALSE]
    /\ reputation = [n \in Nodes |-> EmptyMap]
    /\ fresh = 1
    /\ injected = 0
    /\ added = 0
    /\ sequence = [n \in Nodes |-> 0]
    /\ erred = [n \in Nodes |-> FALSE]
    /\ answered = [n \in Nodes |-> {}]
    /\ synSent = [n \in Nodes |-> {}]
    /\ run = NoRun

\* AiMesh::announce
Announce(n) ==
    /\ fresh < MaxFresh
    /\ Len(outbox[n]) < OutboxCap
    /\ outbox' = [outbox EXCEPT ![n] =
           Append(@, AiMessage("Discovery", Identity(n).id, NoId,
                               DiscoveryInfo(Identity(n)), NoSig, fresh))]
    /\ fresh' = fresh + 1
    /\ run' = NoRun
    /\ UNCHANGED <<peers, replay_cache, inbox, rx, running, reputation,
                   injected, synSent, added>>
    /\ UNCHANGED <<admVars, unitVars, sequence, erred, answered>>

\* AiMesh::initiate_handshake(peer_id)
InitiateHandshake(n, peer_id) ==
    /\ fresh < MaxFresh
    /\ peer_id \in DOMAIN peers[n]
    /\ Len(outbox[n]) < OutboxCap
    /\ \E msg \in {SignedHandshake(n, peer_id,
                       HandshakeMessage("Syn", Identity(n), fresh,
                                        NoChallenge), fresh)} :
        /\ outbox' = [outbox EXCEPT ![n] = Append(@, msg)]
        /\ run' = IF /\ run.phase = 1 /\ n = run.a
                     /\ peer_id = Identity(run.b).id
                  THEN [run EXCEPT !.phase = 2, !.expect = msg]
                  ELSE NoRun
    /\ synSent' = [synSent EXCEPT ![n] = @ \cup {<<peer_id, fresh>>}]
    /\ fresh' = fresh + 1
    /\ UNCHANGED <<peers, replay_cache, inbox, rx, running, reputation,
                   injected, added>>
    /\ UNCHANGED <<admVars, unitVars, sequence, erred, answered>>

\* the JSON contents an application sends
Contents == {1, 2}

\* AiMesh::send_direct as a function of the node's state; fr is the value
\* rand::random() yields for the envelope nonce
SendDirectFnMut(n, table, seq, recipient, content, fr) ==
    IF recipient \notin DOMAIN table
    THEN [res |-> "Err", msgs |-> <<>>, sequence |-> seq]
    ELSE LET payload == DirectPlain(content)
             msg == [AiMessage("Direct", Identity(n).id, recipient, payload,
                               SignBy(n, payload), fr)
                         EXCEPT !.sequence = seq + 1]
         IN [res |-> "Ok", msgs |-> <<msg>>, sequence |-> seq + 1]

SendDirectFn(n, table, seq, recipient, content, fr) ==
    IF recipient \notin DOMAIN table
    THEN [res |-> "Err", msgs |-> <<>>, sequence |-> seq]
    ELSE LET payload ==
                 IF table[recipient].shared_secret # NoSecret
                 THEN DirectCipher(table[recipient].shared_secret, content)
                 ELSE DirectPlain(content)
             msg == [AiMessage("Direct", Identity(n).id, recipient, payload,
                               SignBy(n, payload), fr)
                         EXCEPT !.sequence = seq + 1]
         IN [res |-> "Ok", msgs |-> <<msg>>, sequence |-> seq + 1]

\* AiMesh::send_direct(recipient, content)
SendDirect(n, recipient) ==
    /\ sequence[n] < MaxSequence
    /\ Len(outbox[n]) < OutboxCap
    /\ \E content \in Contents :
       \E r \in {SendDirectFn(n, peers[n], sequence[n], recipient, content,
                              fresh)} :
        /\ outbox' = [outbox EXCEPT ![n] = @ \o r.msgs]
        /\ sequence' = [sequence EXCEPT ![n] = r.sequence]
        /\ fresh' = IF r.msgs # <<>> THEN fresh + 1 ELSE fresh
    /\ run' = NoRun
    /\ UNCHANGED <<peers, replay_cache, inbox, rx, running, reputation,
                   injected, added, erred, answered, synSent>>
    /\ UNCHANGED <<admVars, unitVars>>

\* the peers an application builds and hands to add_peer
AppPeers(n) ==
    UNION {{Blacklist(PeerNew(Identity(p))),
            UpdateTrust(PeerNew(Identity(p)), -45),
            SetTrustLevel(UpdateTrust(PeerNew(Identity(p)), 30), Trusted)} :
           p \in {Other(n)}}

\* AiMesh::add_peer
AddPeer(n) ==
    /\ added < MaxAdds
    /\ added' = added + 1
    /\ \E peer \in AppPeers(n) :
        peers' = [peers EXCEPT ![n] = Upsert(@, peer)]
    /\ run' = NoRun
    /\ UNCHANGED <<replay_cache, outbox, inbox, rx, running, reputation,
                   fresh, injected, synSent>>
    /\ UNCHANGED <<admVars, unitVars, sequence, erred, answered>>

\* the effect of handle_message(msg) on node n
HandledMut(n, msg, out) ==
    /\ peers' = [peers EXCEPT ![n] = out.peers]
    /\ replay_cache' = [replay_cache EXCEPT ![n] = out.cache]
    /\ inbox' = [inbox EXCEPT ![n] = InboxSend(@, out.inbox)]
    /\ reputation' = IF out.saved
                     THEN [reputation EXCEPT ![n] = Snapshot(peers[n])]
                     ELSE reputation
    /\ erred' = [erred EXCEPT ![n] = @ \/ out.res = "Err"]
    /\ answered' = IF /\ msg.msg_type = "Handshake"
                      /\ msg.payload.kind = "Syn"
                      /\ out.reply # <<>>
                   THEN [answered EXCEPT ![n] = @ \cup {msg.sender}]
                   ELSE answered

Handled(n, msg, out) ==
    /\ peers' = [peers EXCEPT ![n] = out.peers]
    /\ replay_cache' = [replay_cache EXCEPT ![n] = out.cache]
    /\ inbox' = [inbox EXCEPT ![n] = InboxSend(@, out.inbox)]
    /\ reputation' = IF out.saved
                     THEN [reputation EXCEPT ![n] = Snapshot(out.peers)]
                     ELSE reputation
    /\ erred' = [erred EXCEPT ![n] = @ \/ out.res = "Err"]
    /\ answered' = IF /\ msg.msg_type = "Handshake"
                      /\ msg.payload.kind = "Syn"
                      /\ out.reply # <<>>
                   THEN [answered EXCEPT ![n] = @ \cup {msg.sender}]
                   ELSE answered

\* the writer of node o sends the next message of its outbox to the other
\* node, which runs handle_message on it
Deliver(o) ==
    /\ outbox[o] # <<>>
    /\ \E n \in {Other(o)} : \E msg \in {Head(outbox[o])} :
       \E out \in {HandleMessage(n, peers[n], replay_cache[n], msg, fresh)} :
        /\ Len(outbox[n]) + Len(out.reply) <= OutboxCap
        /\ out.reply = <<>> \/ fresh < MaxFresh
        /\ Handled(n, msg, out)
        /\ outbox' = [outbox EXCEPT ![o] = Tail(@),
                                    ![n] = @ \o out.reply]
        /\ fresh' = IF out.reply # <<>> THEN fresh + 1 ELSE fresh
        /\ run' = RunAfterDeliver(o, n, msg, out)
    /\ UNCHANGED <<rx, running, injected, synSent, added>>
    /\ UNCHANGED <<admVars, unitVars, sequence>>

\* the next message of an outbox is lost
Drop(o) ==
    /\ outbox[o] # <<>>
    /\ outbox' = [outbox EXCEPT ![o] = Tail(@)]
    /\ run' = NoRun
    /\ UNCHANGED <<peers, replay_cache, inbox, rx, running, reputation,
                   fresh, injected, synSent, added>>
    /\ UNCHANGED <<admVars, unitVars, sequence, erred, answered>>

\* handle_message on a message made by the attacker
Inject(n) ==
    /\ injected < MaxInject
    /\ fresh < MaxFresh
    /\ \E msg \in Forged(n) :
       \E out \in {HandleMessage(n, peers[n], replay_cache[n], msg,
                                 fresh + 1)} :
        /\ Len(outbox[n]) + Len(out.reply) <= OutboxCap
        /\ fresh + 1 + Len(out.reply) <= MaxFresh
        /\ Handled(n, msg, out)
        /\ outbox' = [outbox EXCEPT ![n] = @ \o out.reply]
        /\ fresh' = IF out.reply # <<>> THEN fresh + 2 ELSE fresh + 1
    /\ injected' = injected + 1
    /\ run' = NoRun
    /\ UNCHANGED <<rx, running, synSent, added>>
    /\ UNCHANGED <<admVars, unitVars, sequence>>

\* AiMesh::start_networking
StartNetworking(n) ==
    /\ ~running[n]
    /\ running' = [running EXCEPT ![n] = TRUE]
    /\ run' = NoRun
    /\ UNCHANGED <<peers, replay_cache, outbox, inbox, rx, reputation,
                   fresh, injected, synSent, added>>
    /\ UNCHANGED <<admVars, unitVars, sequence, erred, answered>>

\* QuicTransport::handle_connection: a deserialised AiMessage is sent on tx
TransportReceive(n) ==
    /\ running[n]
    /\ injected < MaxInject
    /\ fresh < MaxFresh
    /\ Len(rx[n]) < RxCap
    /\ \E msg \in TransportMessages(n) :
        rx' = [rx EXCEPT ![n] = Append(@, msg)]
    /\ fresh' = fresh + 1
    /\ injected' = injected + 1
    /\ run' = NoRun
    /\ UNCHANGED <<peers, replay_cache, outbox, inbox, running, reputation,
                   synSent, added>>
    /\ UNCHANGED <<admVars, unitVars, sequence, erred, answered>>

\* the task spawned by start_networking: rx.recv() then inbox_tx.send(msg)
ForwardToInbox(n) ==
    /\ rx[n] # <<>>
    /\ inbox' = [inbox EXCEPT ![n] = InboxSend(@, <<Head(rx[n])>>)]
    /\ rx' = [rx EXCEPT ![n] = Tail(@)]
    /\ run' = NoRun
    /\ UNCHANGED <<peers, replay_cache, outbox, running, reputation, fresh,
                   injected, synSent, added>>
    /\ UNCHANGED <<admVars, unitVars, sequence, erred, answered>>

(***************************************************************************)
(*        PART III : single objects under their own operations             *)
(***************************************************************************)

TrustLevels ==
    {Blacklisted, Unknown, Discovered, Authenticated, Trusted, System}

\* the deltas the steps of the model apply; the claims quantify over I8
Deltas == {I8Min, -45, -20, 10, 30, I8Max}

\* the key AiMesh::new gives a reloaded peer ([0u8; 32])
ZeroKey == <<"zero">>

\* AiMesh::new, the loop over the loaded reputation entries: a wrapped
\* difference is what a release build computes
ReloadPeer(id, entry) ==
    UpdateTrust(
        SetTrustLevel(
            PeerNew([id |-> id, exchange_public |-> ZeroKey,
                     signing_public |-> ZeroKey]),
            entry.trust_level),
        AsI8(AsI8(entry.trust_score) - AsI8(50)))

\* the peer table AiMesh::new builds from reputation.json
Reload(entries) == [id \in DOMAIN entries |-> ReloadPeer(id, entries[id])]

\* the record of a call: method, argument, the peer it was called on
Called(op, arg, before) == [op |-> op, arg |-> arg, before |-> before]

PeerInit ==
    /\ unit_peer = PeerNew(Identity("B"))
    /\ unit_last = Called("new", 0, PeerNew(Identity("B")))

PeerSetTrustLevel ==
    /\ \E level \in TrustLevels :
        /\ unit_peer' = SetTrustLevel(unit_peer, level)
        /\ unit_last' = Called("set_trust_level", level, unit_peer)
    /\ UNCHANGED <<admVars, meshVars, cacheVars, windowVars, bootVars,
                   taskVars, trustVars, fileVars, handlerVars,
                   resourceVars>>

PeerAuthenticate ==
    /\ unit_peer' = Authenticate(unit_peer)
    /\ unit_last' = Called("authenticate", 0, unit_peer)
    /\ UNCHANGED <<admVars, meshVars, cacheVars, windowVars, bootVars,
                   taskVars, trustVars, fileVars, handlerVars,
                   resourceVars>>

PeerBlacklist ==
    /\ unit_peer' = Blacklist(unit_peer)
    /\ unit_last' = Called("blacklist", 0, unit_peer)
    /\ UNCHANGED <<admVars, meshVars, cacheVars, windowVars, bootVars,
                   taskVars, trustVars, fileVars, handlerVars,
                   resourceVars>>

PeerUpdateTrust ==
    /\ \E delta \in Deltas :
        /\ unit_peer' = UpdateTrust(unit_peer, delta)
        /\ unit_last' = Called("update_trust", delta, unit_peer)
    /\ UNCHANGED <<admVars, meshVars, cacheVars, windowVars, bootVars,
                   taskVars, trustVars, fileVars, handlerVars,
                   resourceVars>>

PeerSetSharedSecret ==
    /\ unit_peer' = SetSharedSecret(unit_peer,
                        DeriveShared("A", unit_peer.exchange_public))
    /\ unit_last' = Called("set_shared_secret", 0, unit_peer)
    /\ UNCHANGED <<admVars, meshVars, cacheVars, windowVars, bootVars,
                   taskVars, trustVars, fileVars, handlerVars,
                   resourceVars>>

\* ReputationManager::save of a table holding the peer, then a restart:
\* AiMesh::new on the same data
SaveAndRestart ==
    /\ unit_peer' =
           Reload(Snapshot(Put(EmptyMap, unit_peer.id, unit_peer)))[
               unit_peer.id]
    /\ unit_last' = Called("restart", 0, unit_peer)
    /\ UNCHANGED <<admVars, meshVars, cacheVars, windowVars, bootVars,
                   taskVars, trustVars, fileVars, handlerVars,
                   resourceVars>>

PeerNext ==
    \/ PeerSetTrustLevel
    \/ PeerAuthenticate
    \/ PeerBlacklist
    \/ PeerUpdateTrust
    \/ PeerSetSharedSecret
    \/ SaveAndRestart


\* ---- one count-bounded ReplayCache under check_and_add ----
MaxAccepted == 4

\* the nonces presented to the cache: more than it can hold
UnitNonces == 1 .. Capacity + 2

CacheInit ==
    /\ unit_cache = NewCache
    /\ unit_accepted = <<>>
    /\ unit_call = [nonce |-> 0, unique |-> FALSE, before |-> NewCache]

\* ReplayCache::check_and_add(nonce)
CheckAndAddCall ==
    /\ Len(unit_accepted) < MaxAccepted
    /\ \E nonce \in UnitNonces : \E r \in {CheckAndAdd(unit_cache, nonce)} :
        /\ unit_cache' = r.cache
        /\ unit_accepted' = IF r.unique THEN Append(unit_accepted, nonce)
                                        ELSE unit_accepted
        /\ unit_call' = [nonce |-> nonce, unique |-> r.unique,
                         before |-> unit_cache]
    /\ UNCHANGED <<admVars, meshVars, peerVars, windowVars, bootVars,
                   taskVars, trustVars, fileVars, handlerVars,
                   resourceVars>>


\* ---- one time-bounded ReplayCache under is_replay, as the clock runs ----
WindowNonces == {"n1", "n2", "n3"}

NoReplayCall ==
    [called |-> FALSE, nonce |-> "none", at |-> 0, replay |-> FALSE,
     before |-> EmptyMap]

WindowInit ==
    /\ unit_window = EmptyMap
    /\ unit_recorded = EmptyMap
    /\ unit_replay = NoReplayCall

\* ReplayCache::is_replay(nonce) at the current time
IsReplayCall ==
    /\ \E nonce \in WindowNonces : \E r \in {IsReplay(unit_window, nonce, now)} :
        /\ unit_window' = r.cache
        /\ unit_recorded' = IF r.replay THEN unit_recorded
                                        ELSE Put(unit_recorded, nonce, now)
        /\ unit_replay' = [called |-> TRUE, nonce |-> nonce, at |-> now,
                           replay |-> r.replay, before |-> unit_recorded]
    /\ UNCHANGED <<admVars, meshVars, peerVars, cacheVars, bootVars, taskVars,
                   trustVars, fileVars, handlerVars, resourceVars>>


\* ---- identity.rs : the identity file and the hardware it is sealed to ----

\* HardwareFingerprint: the fields that differ between the machines of the
\* model (cpu_arch, cpu_cores, os_type and os_release are the same on all)
Fingerprints == [hostname : {"h1", "h2"}, memory_gb : {8, 16}]

\* HardwareFingerprint::hash
FingerprintHash(fp) == <<"sha256", fp>>

NoIdentity == [id |-> NoId, exchange_public |-> NoKey, signing_public |-> NoKey]

\* PersistentIdentity::new on hardware fp, with the generated secrets of p
\* secret_bytes are named by the principal they are the secrets of
NoSecrets == "none"

\* NodeSecrets::identity : the public identity of secret bytes
SecretsIdentity(secret_bytes) == Identity(secret_bytes)

PersistentIdentityNew(p, fp) ==
    [identity |-> SecretsIdentity(p), hardware_seal |-> FingerprintHash(fp),
     secret_bytes |-> p]

\* PersistentIdentity::load_and_verify of an identity.key on hardware fp
LoadAndVerifyMut(file, fp) ==
    [res |-> "Ok", identity |-> file.identity, secrets |-> file.secret_bytes]

LoadAndVerify(file, fp) ==
    IF file.hardware_seal # FingerprintHash(fp)
    THEN [res |-> "Err", identity |-> NoIdentity, secrets |-> NoSecrets]
    ELSE [res |-> "Ok", identity |-> file.identity,
          secrets |-> file.secret_bytes]

\* load_or_create_identity on hardware fp: found is the node directory that
\* read_dir yields first among those holding an identity.key (when there is
\* one), p the principal whose secrets NodeSecrets::generate() would draw
LoadOrCreateIdentityFnMut(d, fp, found, p) ==
    [res |-> "Ok", identity |-> Identity(p), secrets |-> p,
     disk |-> Put(d, Identity(p).id, PersistentIdentityNew(p, fp))]

LoadOrCreateIdentityFn(d, fp, found, p) ==
    IF found \in DOMAIN d
    THEN [res |-> LoadAndVerify(d[found], fp).res,
          identity |-> LoadAndVerify(d[found], fp).identity,
          secrets |-> LoadAndVerify(d[found], fp).secrets,
          disk |-> d]
    ELSE [res |-> "Ok", identity |-> PersistentIdentityNew(p, fp).identity,
          secrets |-> PersistentIdentityNew(p, fp).secret_bytes,
          disk |-> Put(d, Identity(p).id, PersistentIdentityNew(p, fp))]

\* the machine the data directory is first started on
FirstHardware == [hostname |-> "h1", memory_gb |-> 8]

NoBoot ==
    [called |-> FALSE, res |-> "none", identity |-> NoIdentity,
     secrets |-> NoSecrets, before |-> EmptyMap, fp |-> FirstHardware]

BootInit ==
    /\ disk = EmptyMap
    /\ hardware = FirstHardware
    /\ boot = NoBoot

\* load_or_create_identity(base_dir, role, name)
LoadOrCreateIdentity ==
    /\ \E p \in Principals :
       \E found \in (IF DOMAIN disk = {} THEN {NoId} ELSE DOMAIN disk) :
       \E r \in {LoadOrCreateIdentityFn(disk, hardware, found, p)} :
        /\ disk' = r.disk
        /\ boot' = [called |-> TRUE, res |-> r.res, identity |-> r.identity,
                    secrets |-> r.secrets, before |-> disk, fp |-> hardware]
    /\ UNCHANGED hardware
    /\ UNCHANGED <<admVars, meshVars, peerVars, cacheVars, windowVars,
                   taskVars, trustVars, fileVars, handlerVars,
                   resourceVars>>

\* the data directory is started on other hardware (a changed hostname or
\* memory size, or the directory moved to another machine)
ChangeHardware ==
    /\ \E fp \in Fingerprints \ {hardware} : hardware' = fp
    /\ UNCHANGED <<disk, boot>>
    /\ UNCHANGED <<admVars, meshVars, peerVars, cacheVars, windowVars,
                   taskVars, trustVars, fileVars, handlerVars,
                   resourceVars>>


\* an identity.key is rewritten outside the program (edited by hand,
\* restored from a backup of another node, damaged): the recorded identity
\* becomes that of q while the seal and the secret bytes stay
EditIdentityFile ==
    /\ \E dir \in DOMAIN disk : \E q \in Principals :
        /\ disk[dir].identity # Identity(q)
        /\ disk' = [disk EXCEPT ![dir].identity = Identity(q)]
    /\ UNCHANGED <<hardware, boot>>
    /\ UNCHANGED <<admVars, meshVars, peerVars, cacheVars, windowVars,
                   taskVars, trustVars, fileVars, handlerVars,
                   resourceVars>>


\* ---- the calls of one AiMesh running concurrently (mesh.rs) ----
MaxCalls == 4

Tasks == {"t1", "t2"}

NoTask == "none"

Idle == [op |-> "none", pc |-> "idle", kind |-> "none", msg |-> 0]

\* the public async operations and the position each starts at
Ops ==
    {"send_thought", "broadcast", "send_direct", "initiate_handshake",
     "announce", "handle_message", "peer_count", "start_networking"}

\* the messages handle_message is called with
Kinds == {"Syn", "SynAck", "Ack", "Thought"}

FirstPc(op) ==
    CASE op \in {"send_thought", "broadcast"} -> "seq"
      [] op \in {"send_direct", "initiate_handshake", "peer_count"}
             -> "read_peers"
      [] op = "announce" -> "build"
      [] op = "handle_message" -> "filter"
      [] op = "start_networking" -> "run_lock"

\* mpsc::Sender::send : the channel takes a message when it has room
CanSendMut(ch) == TRUE

CanSend(ch) == Len(ch) < OutboxCap

TaskInit ==
    /\ task = [t \in Tasks |-> Idle]
    /\ chan = <<>>
    /\ lock_peers = NoTask
    /\ lock_running = NoTask
    /\ net_running = FALSE
    /\ calls = 0
    /\ made = 0
    /\ enqueued = <<>>
    /\ received = <<>>
    /\ returned = {}
    /\ unit_sequence = 0
    /\ taken = <<>>

\* task t sets pc (and keeps the rest of its call)
Goto(t, pc) == task' = [task EXCEPT ![t].pc = pc]

\* task t has built its message and reaches the send at pc
Build(t, pc) ==
    /\ task' = [task EXCEPT ![t].pc = pc, ![t].msg = made + 1]
    /\ made' = made + 1

\* the call of task t returns
Return(t) == task' = [task EXCEPT ![t] = Idle]

\* a caller starts operation op on task t
Call(t, op, kind) ==
    /\ task[t].pc = "idle"
    /\ calls < MaxCalls
    /\ (op = "handle_message") <=> (kind # "none")
    /\ task' = [task EXCEPT ![t] = [op |-> op, pc |-> FirstPc(op),
                                    kind |-> kind, msg |-> 0]]
    /\ calls' = calls + 1
    /\ UNCHANGED <<chan, lock_peers, lock_running, net_running, made,
                   enqueued, received, returned,
                   unit_sequence, taken>>
    /\ UNCHANGED <<admVars, meshVars, peerVars, cacheVars, windowVars,
                   bootVars, trustVars, fileVars, handlerVars,
                   resourceVars>>

\* a counter that is read without being raised
NextSequenceFnMut(seq) == seq

\* AiMesh::next_sequence : the counter is raised and read under its write
\* lock, with no suspension point in between (a u64, which the calls of
\* one process cannot wrap)
NextSequenceFn(seq) == seq + 1

\* next_sequence (send_thought, broadcast, send_direct), then the message
\* is built and signed; announce builds its message without a sequence
NextSequence(t) ==
    /\ task[t].pc \in {"seq", "build"}
    /\ Build(t, "send")
    /\ IF task[t].pc = "seq"
       THEN /\ unit_sequence' = NextSequenceFn(unit_sequence)
            /\ taken' = Append(taken, NextSequenceFn(unit_sequence))
       ELSE UNCHANGED <<unit_sequence, taken>>
    /\ UNCHANGED <<chan, lock_peers, lock_running, net_running, calls,
                   enqueued, received, returned>>

\* self.peers.read().await, the lookup, and the drop of the guard
\* (send_direct, initiate_handshake, peer_count)
ReadPeers(t) ==
    /\ task[t].pc = "read_peers"
    /\ lock_peers = NoTask
    /\ \/ /\ task[t].op = "peer_count"
          /\ Return(t)
          /\ UNCHANGED made
       \/ /\ task[t].op \in {"send_direct", "initiate_handshake"}
          /\ Return(t)               \* peer not found: Err
          /\ UNCHANGED made
       \/ /\ task[t].op = "send_direct"
          /\ Goto(t, "seq")
          /\ UNCHANGED made
       \/ /\ task[t].op = "initiate_handshake"
          /\ Build(t, "send")
    /\ UNCHANGED <<chan, lock_peers, lock_running, net_running, calls,
                   enqueued, received, returned,
                   unit_sequence, taken>>

\* self.outbox.send(msg).await with no lock held: completes when the
\* channel has room, stays suspended otherwise
OutboxSend(t) ==
    /\ task[t].pc = "send"
    /\ CanSend(chan)
    /\ chan' = Append(chan, task[t].msg)
    /\ enqueued' = Append(enqueued, task[t].msg)
    /\ returned' = returned \cup {task[t].msg}
    /\ Return(t)
    /\ UNCHANGED <<lock_peers, lock_running, net_running, calls, made,
                   received,
                   unit_sequence, taken>>

\* handle_message: the reputation filter, the signature check (each under
\* a read lock of the peer table) and the replay check
Checks(t) ==
    /\ task[t].pc \in {"filter", "sig", "replay"}
    /\ task[t].pc \in {"filter", "sig"} => lock_peers = NoTask
    /\ \/ Return(t)                  \* rejected: return Ok(())
       \/ /\ task[t].pc = "filter" /\ Goto(t, "sig")
       \/ /\ task[t].pc = "sig" /\ Goto(t, "replay")
       \/ /\ task[t].pc = "replay"
          /\ Goto(t, IF task[t].kind = "Thought" THEN "save" ELSE "hs_lock")
    /\ UNCHANGED <<chan, lock_peers, lock_running, net_running, calls,
                   made, enqueued, received, returned,
                   unit_sequence, taken>>

\* handle_handshake: self.peers.write().await and the arm of the message;
\* an arm that sends a reply reaches the send with the guard alive
HandshakeLocked(t) ==
    /\ task[t].pc = "hs_lock"
    /\ lock_peers = NoTask
    /\ \/ /\ Goto(t, "save")         \* no reply: the guard is dropped
          /\ UNCHANGED <<lock_peers, made>>
       \/ /\ task[t].kind \in {"Syn", "SynAck"}
          /\ Build(t, "send_locked")
          /\ lock_peers' = t
    /\ UNCHANGED <<chan, lock_running, net_running, calls, enqueued,
                   received, returned,
                   unit_sequence, taken>>

\* handle_handshake: self.outbox.send(resp_msg).await?, then the guard is
\* dropped as the function returns
ReplySend(t) ==
    /\ task[t].pc = "send_locked"
    /\ CanSend(chan)
    /\ chan' = Append(chan, task[t].msg)
    /\ enqueued' = Append(enqueued, task[t].msg)
    /\ returned' = returned \cup {task[t].msg}
    /\ lock_peers' = NoTask
    /\ Goto(t, "save")
    /\ UNCHANGED <<lock_running, net_running, calls, made, received,
                   unit_sequence, taken>>

\* handle_message: self.peers.read().await and reputation_manager.save
SaveReputation(t) ==
    /\ task[t].pc = "save"
    /\ lock_peers = NoTask
    /\ Return(t)
    /\ UNCHANGED <<chan, lock_peers, lock_running, net_running, calls,
                   made, enqueued, received, returned,
                   unit_sequence, taken>>

\* start_networking: self.running.write().await and the running test
LockRunning(t) ==
    /\ task[t].pc = "run_lock"
    /\ lock_running = NoTask
    /\ IF net_running
       THEN Return(t) /\ UNCHANGED lock_running
       ELSE Goto(t, "bind") /\ lock_running' = t
    /\ UNCHANGED <<chan, lock_peers, net_running, calls, made, enqueued,
                   received, returned,
                   unit_sequence, taken>>

\* start_networking: QuicTransport::bind(..).await? returns, with the guard
\* on running alive; on success the task is spawned and running set
Bind(t) ==
    /\ task[t].pc = "bind"
    /\ \E ok \in BOOLEAN : net_running' = ok
    /\ lock_running' = NoTask
    /\ Return(t)
    /\ UNCHANGED <<chan, lock_peers, calls, made, enqueued, received,
                   returned,
                   unit_sequence, taken>>

\* one step of task t inside its call
TaskStep(t) ==
    /\ \/ NextSequence(t)
       \/ ReadPeers(t)
       \/ OutboxSend(t)
       \/ Checks(t)
       \/ HandshakeLocked(t)
       \/ ReplySend(t)
       \/ SaveReputation(t)
       \/ LockRunning(t)
       \/ Bind(t)
    /\ UNCHANGED <<admVars, meshVars, peerVars, cacheVars, windowVars,
                   bootVars, trustVars, fileVars, handlerVars,
                   resourceVars>>

\* the holder of the outbox receiver takes the next message
Recv ==
    /\ chan # <<>>
    /\ received' = Append(received, Head(chan))
    /\ chan' = Tail(chan)
    /\ UNCHANGED <<task, lock_peers, lock_running, net_running, calls,
                   made, enqueued, returned,
                   unit_sequence, taken>>
    /\ UNCHANGED <<admVars, meshVars, peerVars, cacheVars, windowVars,
                   bootVars, trustVars, fileVars, handlerVars,
                   resourceVars>>


\* ---- UnifiedTrustManager (unified_identity.rs) ----
UnifiedLevels == {"New", "Probation", "Trusted", "System", "Rejected"}

\* UnifiedTrustManager::trust_level_rank
TrustLevelRank(level) ==
    CASE level = "Rejected" -> 0
      [] level = "New" -> 1
      [] level = "Probation" -> 2
      [] level = "Trusted" -> 3
      [] level = "System" -> 4

\* UnifiedTrustManager::new : trust_policies.minimum_trust_for_network
MinimumTrustForNetwork == "Probation"

PacketTypes == {"SYN", "SYN-ACK", "HEARTBEAT", "DATA"}

TrustIds == {"test_peer", "other_peer"}

\* TrustEvaluation::reject / TrustEvaluation::allow
Reject == [allowed |-> FALSE, trust_level |-> "Rejected"]

Allow(level) == [allowed |-> TRUE, trust_level |-> level]

\* the minimum-trust test of evaluate_trust
BelowMinimum(level) ==
    TrustLevelRank(level) < TrustLevelRank(MinimumTrustForNetwork)

\* UnifiedTrustManager::evaluate_trust
EvaluateTrust(ids, node_id, packet_type) ==
    IF node_id \notin DOMAIN ids THEN Reject
    ELSE IF BelowMinimum(ids[node_id]) THEN Reject
    ELSE IF ids[node_id] = "New" /\ packet_type # "SYN" THEN Reject
    ELSE IF /\ ids[node_id] = "Probation"
            /\ packet_type \notin {"SYN", "SYN-ACK", "HEARTBEAT"}
         THEN Reject
    ELSE Allow(ids[node_id])

NoEvaluation ==
    [called |-> FALSE, node_id |-> "none", packet_type |-> "none",
     level |-> "none", result |-> Reject]

TrustInit ==
    /\ identities = EmptyMap
    /\ evaluation = NoEvaluation

\* UnifiedTrustManager::register_peer
RegisterPeer ==
    /\ \E node_id \in TrustIds : identities' = Put(identities, node_id, "New")
    /\ UNCHANGED evaluation
    /\ UNCHANGED <<admVars, meshVars, peerVars, cacheVars, windowVars,
                   bootVars, taskVars, fileVars, handlerVars, resourceVars>>

\* UnifiedTrustManager::promote_trust
PromoteTrust ==
    /\ \E node_id \in DOMAIN identities :
          identities' =
              [identities EXCEPT ![node_id] =
                  CASE @ = "New" -> "Probation"
                    [] @ = "Probation" -> "Trusted"
                    [] OTHER -> @]
    /\ UNCHANGED evaluation
    /\ UNCHANGED <<admVars, meshVars, peerVars, cacheVars, windowVars,
                   bootVars, taskVars, fileVars, handlerVars, resourceVars>>

\* UnifiedTrustManager::evaluate_trust(node_id, packet_type)
EvaluateTrustCall ==
    /\ \E node_id \in TrustIds : \E packet_type \in PacketTypes :
          evaluation' =
              [called |-> TRUE, node_id |-> node_id,
               packet_type |-> packet_type,
               level |-> IF node_id \in DOMAIN identities
                         THEN identities[node_id] ELSE "none",
               result |-> EvaluateTrust(identities, node_id, packet_type)]
    /\ UNCHANGED identities
    /\ UNCHANGED <<admVars, meshVars, peerVars, cacheVars, windowVars,
                   bootVars, taskVars, fileVars, handlerVars, resourceVars>>

vars == <<admVars, meshVars, unitVars>>

\* ---- the files that hold secret key bytes, and the code writing them ----
\* identity.key of the mesh (PersistentIdentity::save), identity.master.key
\* (NodeIdentity::pre_determine), identity.key of the isolation root
\* (NodeIdentity::persist)
KeyFiles == {"save", "pre_determine", "persist"}

OwnerOnly == 384        \* 0o600

\* the mode a file is created with: 0o666 masked by the umask of the
\* process (0o022, 0o002, 0o077)
CreateModes == {420, 436, 384}

NoFile == [exists |-> FALSE, mode |-> 0, secret |-> FALSE]

FileInit ==
    /\ files = [f \in KeyFiles |-> NoFile]
    /\ persisting = [f \in KeyFiles |-> "start"]

\* File::create : a new file gets the creation mode, an existing one is
\* truncated and keeps its mode
FileCreate(file, mode) ==
    [exists |-> TRUE, mode |-> IF file.exists THEN file.mode ELSE mode,
     secret |-> FALSE]

\* file.write_all(json) on an open file
WriteAll(file) == [file EXCEPT !.secret = TRUE]

\* fs::write : create (or truncate) and write in one call
FsWrite(file, mode) == WriteAll(FileCreate(file, mode))

\* set_permissions(.., 0o600)
SetPermissions(file) == [file EXCEPT !.mode = OwnerOnly]

FileStep(f, pc, next, file) ==
    /\ persisting[f] = pc
    /\ persisting' = [persisting EXCEPT ![f] = next]
    /\ files' = [files EXCEPT ![f] = file]
    /\ UNCHANGED <<admVars, meshVars, peerVars, cacheVars, windowVars,
                   bootVars, taskVars, trustVars, handlerVars,
                   resourceVars>>

\* PersistentIdentity::save : File::create, set_permissions, write_all
Save ==
    \/ \E mode \in CreateModes :
           FileStep("save", "start", "created", FileCreate(files["save"], mode))
    \/ FileStep("save", "created", "restricted", SetPermissions(files["save"]))
    \/ FileStep("save", "restricted", "done", WriteAll(files["save"]))

\* NodeIdentity::pre_determine, no master key yet : fs::write, then
\* fs::set_permissions
PreDetermine ==
    \/ \E mode \in CreateModes :
           /\ ~files["pre_determine"].exists
           /\ FileStep("pre_determine", "start", "written",
                       FsWrite(files["pre_determine"], mode))
    \/ FileStep("pre_determine", "written", "done",
                SetPermissions(files["pre_determine"]))

\* NodeIdentity::persist, no identity.key yet : fs::write, then
\* fs::set_permissions
Persist ==
    \/ \E mode \in CreateModes :
           /\ ~files["persist"].exists
           /\ FileStep("persist", "start", "written",
                       FsWrite(files["persist"], mode))
    \/ FileStep("persist", "written", "done",
                SetPermissions(files["persist"]))

\* ---- concurrent handle_message calls on one ReplayCache (mesh.rs) ----
\* the envelope nonces of the messages: one more than the cache holds
HandlerNonces == 1 .. Capacity + 1

NotHandling == [pc |-> "idle", nonce |-> 0]

HandlerInit ==
    /\ handling = [t \in Tasks |-> NotHandling]
    /\ dispatched = <<>>

\* handle_message, the replay check: a message whose nonce check_and_add
\* refuses is dropped
ReplayCheckMut(cache, nonce) ==
    [pass |-> TRUE, cache |-> CheckAndAdd(cache, nonce).cache]

ReplayCheck(cache, nonce) ==
    [pass |-> CheckAndAdd(cache, nonce).unique,
     cache |-> CheckAndAdd(cache, nonce).cache]

\* handle_message(msg) is called on task t
HandleCall(t) ==
    /\ handling[t].pc = "idle"
    /\ \E nonce \in HandlerNonces :
          handling' = [handling EXCEPT ![t] = [pc |-> "filter",
                                              nonce |-> nonce]]
    /\ UNCHANGED <<dispatched, cacheVars>>

\* the reputation filter and the signature check: the message is dropped
\* or goes on to the replay check
HandleFilter(t) ==
    /\ handling[t].pc = "filter"
    /\ \/ handling' = [handling EXCEPT ![t] = NotHandling]
       \/ handling' = [handling EXCEPT ![t].pc = "replay"]
    /\ UNCHANGED <<dispatched, cacheVars>>

\* self.replay_cache.write().await and check_and_add(msg.nonce): one
\* critical section without a suspension point
HandleReplay(t) ==
    /\ handling[t].pc = "replay"
    /\ Len(unit_accepted) < MaxAccepted
    /\ \E r \in {ReplayCheck(unit_cache, handling[t].nonce)} :
        /\ unit_cache' = r.cache
        /\ unit_accepted' = IF r.cache # unit_cache
                            THEN Append(unit_accepted, handling[t].nonce)
                            ELSE unit_accepted
        /\ unit_call' = [nonce |-> handling[t].nonce,
                         unique |-> CheckAndAdd(unit_cache,
                                                handling[t].nonce).unique,
                         before |-> unit_cache]
        /\ handling' = IF r.pass
                       THEN [handling EXCEPT ![t].pc = "dispatch"]
                       ELSE [handling EXCEPT ![t] = NotHandling]
    /\ UNCHANGED dispatched

\* the match on msg_type: the message reaches its handler or the inbox
HandleDispatch(t) ==
    /\ handling[t].pc = "dispatch"
    /\ dispatched' = Append(dispatched, handling[t].nonce)
    /\ handling' = [handling EXCEPT ![t] = NotHandling]
    /\ UNCHANGED cacheVars

HandleStep(t) ==
    /\ \/ HandleCall(t)
       \/ HandleFilter(t)
       \/ HandleReplay(t)
       \/ HandleDispatch(t)
    /\ UNCHANGED <<admVars, meshVars, peerVars, windowVars, bootVars,
                   taskVars, trustVars, fileVars, resourceVars>>

\* ---- UnifiedResourceManager (resource_manager.rs) ----
PoolUnits == 2          \* units of the one resource type requested
MaxRequests == 3        \* allocate_resource calls made

Sweeper == "sweep"

\* the HTTP requests calling allocate_resource, and the background task
Callers == Tasks \cup {Sweeper}

RmLocks == {"resource_pools", "allocations"}

ResourceInit ==
    /\ rm_pc = [c \in Callers |-> "idle"]
    /\ rm_lock = [l \in RmLocks |-> NoTask]
    /\ pool = PoolUnits
    /\ stored = 0
    /\ requested = 0

\* caller c takes the write locks ls, which are free
Acquire(c, ls) ==
    /\ \A l \in ls : rm_lock[l] = NoTask
    /\ rm_lock' = [l \in RmLocks |-> IF l \in ls THEN c ELSE rm_lock[l]]

\* the guards of caller c are dropped as its call returns
ReleaseAll(c) ==
    rm_lock' = [l \in RmLocks |-> IF rm_lock[l] = c THEN NoTask
                                  ELSE rm_lock[l]]

\* an HTTP request calls allocate_resource (one unit, with a duration)
AllocateCall(t) ==
    /\ rm_pc[t] = "idle"
    /\ requested < MaxRequests
    /\ requested' = requested + 1
    /\ rm_pc' = [rm_pc EXCEPT ![t] = "want_pools"]
    /\ UNCHANGED <<rm_lock, pool, stored>>

\* allocate_resource: self.resource_pools.write().await, the policy and
\* availability checks and consume_resources; an Err return drops the
\* guard, otherwise the call goes on to allocations with the guard alive
AllocatePools(t) ==
    /\ rm_pc[t] = "want_pools"
    /\ rm_lock["resource_pools"] = NoTask
    /\ \/ /\ rm_pc' = [rm_pc EXCEPT ![t] = "idle"]   \* ExceedsPolicyLimit
          /\ UNCHANGED <<rm_lock, pool>>
       \/ /\ pool = 0                                \* InsufficientResources
          /\ rm_pc' = [rm_pc EXCEPT ![t] = "idle"]
          /\ UNCHANGED <<rm_lock, pool>>
       \/ /\ pool > 0
          /\ Acquire(t, {"resource_pools"})
          /\ pool' = pool - 1
          /\ rm_pc' = [rm_pc EXCEPT ![t] = "want_allocations"]
    /\ UNCHANGED <<stored, requested>>

\* allocate_resource: self.allocations.write().await, the insert, the
\* ledger update and the return
AllocateStore(t) ==
    /\ rm_pc[t] = "want_allocations"
    /\ rm_lock["allocations"] = NoTask
    /\ stored' = stored + 1
    /\ ReleaseAll(t)
    /\ rm_pc' = [rm_pc EXCEPT ![t] = "idle"]
    /\ UNCHANGED <<pool, requested>>

\* the background task wakes up and calls release_expired_allocations
SweepCall ==
    /\ rm_pc[Sweeper] = "idle"
    /\ rm_pc' = [rm_pc EXCEPT ![Sweeper] = "want_allocations"]
    /\ UNCHANGED <<rm_lock, pool, stored, requested>>

\* release_expired_allocations: self.allocations.write().await
SweepAllocations ==
    /\ rm_pc[Sweeper] = "want_allocations"
    /\ Acquire(Sweeper, {"allocations"})
    /\ rm_pc' = [rm_pc EXCEPT ![Sweeper] = "want_pools"]
    /\ UNCHANGED <<pool, stored, requested>>

\* release_expired_allocations: self.resource_pools.write().await, the
\* retain that returns the units of the expired allocations, the return
SweepPools ==
    /\ rm_pc[Sweeper] = "want_pools"
    /\ rm_lock["resource_pools"] = NoTask
    /\ \E expired \in 0 .. stored :
        /\ stored' = stored - expired
        /\ pool' = pool + expired
    /\ ReleaseAll(Sweeper)
    /\ rm_pc' = [rm_pc EXCEPT ![Sweeper] = "idle"]
    /\ UNCHANGED requested

ResourceStep ==
    /\ \/ \E t \in Tasks : AllocateCall(t) \/ AllocatePools(t)
                              \/ AllocateStore(t)
       \/ SweepCall
       \/ SweepAllocations
       \/ SweepPools
    /\ UNCHANGED <<admVars, meshVars, peerVars, cacheVars, windowVars,
                   bootVars, taskVars, trustVars, fileVars, handlerVars>>

UnitInit ==
    /\ PeerInit /\ CacheInit /\ WindowInit /\ BootInit /\ TaskInit
    /\ TrustInit /\ FileInit /\ HandlerInit /\ ResourceInit

Init == AdmInit /\ MeshInit /\ UnitInit

AdmNext == Tick \/ PinKey \/ RegisterHandshake \/ ShouldAdmit

SpecAdmission == Init /\ [][AdmNext]_vars

PromotionNext == Tick \/ RegisterHandshake \/ AdmitSigned

SpecPromotion == Init /\ [][PromotionNext]_vars

MeshNext ==
    \/ \E n \in Nodes : Announce(n)
    \/ \E n \in Nodes : \E id \in Ids : InitiateHandshake(n, id)
    \/ \E n \in Nodes : AddPeer(n)
    \/ \E o \in Nodes : Deliver(o)
    \/ \E o \in Nodes : Drop(o)

\* the two nodes and the application, on a network that may lose messages
SpecMesh == Init /\ [][MeshNext]_vars

FilterNext ==
    \/ \E n \in Nodes : Announce(n)
    \/ \E n \in Nodes : AddPeer(n)
    \/ \E o \in Nodes : Deliver(o)

\* the application adds peers of any reputation and the nodes announce
\* themselves; every state is examined under every message that could be
\* handed to handle_message next
SpecFilter == Init /\ [][FilterNext]_vars

AttackNext ==
    \/ \E n \in Nodes : Announce(n)
    \/ \E n \in Nodes : \E id \in Ids : InitiateHandshake(n, id)
    \/ \E n \in Nodes : AddPeer(n)
    \/ \E o \in Nodes : Deliver(o)
    \/ \E o \in Nodes : Drop(o)
    \/ \E n \in Nodes : Inject(n)

\* the same, with an attacker that sends messages of its own
SpecAttack == Init /\ [][AttackNext]_vars

InboxNext ==
    \/ \E n \in Nodes : StartNetworking(n)
    \/ \E n \in Nodes : TransportReceive(n)
    \/ \E n \in Nodes : ForwardToInbox(n)
    \/ \E n \in Nodes : Announce(n)
    \/ \E o \in Nodes : Deliver(o)
    \/ \E n \in Nodes : Inject(n)

SpecInbox == Init /\ [][InboxNext]_vars

DirectNext ==
    \/ Announce("B")
    \/ AddPeer("A")
    \/ \E id \in Ids : InitiateHandshake("A", id)
    \/ \E id \in Ids : SendDirect("A", id)
    \/ \E o \in Nodes : Deliver(o)

\* node B announces itself; node A adds peers, starts handshakes and sends
\* Direct messages
SpecDirect == Init /\ [][DirectNext]_vars

CacheNext == CheckAndAddCall

\* one count-bounded replay cache under any sequence of check_and_add calls
SpecCache == Init /\ [][CacheNext]_vars

WindowNext ==
    \/ Tick
    \/ IsReplayCall

\* one time-bounded replay cache under is_replay calls as time passes
SpecWindow == Init /\ [][WindowNext]_vars

BootNext ==
    \/ LoadOrCreateIdentity
    \/ ChangeHardware

\* a data directory booted again and again, on hardware that may change
SpecBoot == Init /\ [][BootNext]_vars

IdentityFileNext ==
    \/ LoadOrCreateIdentity
    \/ ChangeHardware
    \/ EditIdentityFile

\* the same, with an identity.key that may be rewritten between two boots
SpecIdentityFile == Init /\ [][IdentityFileNext]_vars

ChannelNext ==
    \/ \E t \in Tasks : \E op \in Ops : \E kind \in Kinds \cup {"none"} :
          Call(t, op, kind)
    \/ \E t \in Tasks : TaskStep(t)
    \/ Recv

\* concurrent calls on one AiMesh whose outbox receiver is read (as the
\* tests do with out_a.recv())
SpecChannel == Init /\ [][ChannelNext]_vars

MainNext ==
    \/ \E t \in Tasks : \E op \in Ops : \E kind \in Kinds \cup {"none"} :
          Call(t, op, kind)
    \/ \E t \in Tasks : TaskStep(t)

\* concurrent calls on the AiMesh of main, which binds the outbox receiver
\* to _outbox and never reads it; every task that can step eventually does
SpecMain ==
    Init /\ [][MainNext]_vars /\ \A t \in Tasks : WF_vars(TaskStep(t))

HandlerNext == \E t \in Tasks : HandleStep(t)

\* two tasks run handle_message again and again on one replay cache
SpecHandler == Init /\ [][HandlerNext]_vars

ResourceNext == ResourceStep

\* HTTP allocation requests running against the background sweep
SpecResources == Init /\ [][ResourceNext]_vars

PersistNext == Save \/ PreDetermine \/ Persist

\* the three places that write secret key bytes to disk, step by step
SpecPersist == Init /\ [][PersistNext]_vars

TrustNext ==
    \/ RegisterPeer
    \/ PromoteTrust
    \/ EvaluateTrustCall

\* one UnifiedTrustManager: peers registered, promoted and evaluated
SpecTrust == Init /\ [][TrustNext]_vars

HandshakeNext ==
    \/ \E n \in Nodes : Announce(n)
    \/ \E id \in Ids : InitiateHandshake("A", id)
    \/ \E o \in Nodes : Deliver(o)

\* the nodes announce themselves and node A runs handshakes; every state
\* is examined under every message an attacker could deliver next
SpecHandshake == Init /\ [][HandshakeNext]_vars

\* one Peer under set_trust_level, authenticate, blacklist, update_trust,
\* set_shared_secret, and a save followed by a restart
SpecPeer == Init /\ [][PeerNext]_vars

(***************************************************************************)
(* Claims about the admission path.                                        *)
(***************************************************************************)

\* the outcome of should_admit(packet) in the current state
Outcome(packet) == ShouldAdmitFn(peer_registry, seen_nonces, packet, now)

Registered(id) == id \in DOMAIN peer_registry

\* the signature is a 64-byte Ed25519 signature that verifies over
\* payload || timestamp || nonce under the key registered for the sender
SignatureVerifies(packet) ==
    /\ packet.signature.wellformed
    /\ SigMatches(packet, peer_registry[packet.node_id].public_key)

\* C3: a packet with a fresh nonce from a registered, not Rejected peer
\* whose signature does not verify is rejected by should_admit and the peer
\* becomes Rejected at once.
C3_ForgedPacketRejected ==
    \A packet \in Packets(seen_nonces, now) :
      \A out \in {Outcome(packet)} :
        (/\ Registered(packet.node_id)
         /\ ~IsRejected(peer_registry[packet.node_id])
         /\ ~out.replay
         /\ ~SignatureVerifies(packet))
        => (/\ ~out.admit
            /\ out.registry[packet.node_id].trust_level = "Rejected")

C8_PromotionAtTenth ==
    \A id \in DOMAIN peer_registry :
        LET st == peer_registry[id] IN
        /\ st.trust_level = "New" => st.packet_count <= 9
        /\ st.trust_level = "Probation" => st.packet_count >= 10
        /\ \A packet \in SignedPackets(seen_nonces, now) :
            \A out \in {Outcome(packet)} :
              (/\ packet.node_id = id
               /\ st.trust_level = "New"
               /\ ~out.replay
               /\ ValidlySigned(peer_registry, packet, now))
              => (/\ out.admit
                  /\ out.registry[id].packet_count = st.packet_count + 1
                  /\ out.registry[id].trust_level =
                        IF st.packet_count + 1 = 10 THEN "Probation" ELSE "New")

\* the 10th validly signed packet has just been admitted and promoted the peer
C8_Witness ==
    /\ admitLast.called /\ admitLast.node_id = "idP"
    /\ admitLast.valid /\ ~admitLast.replay /\ admitLast.result
    /\ peer_registry["idP"].packet_count = 10
    /\ peer_registry["idP"].trust_level = "Probation"

\* C10: once the local key is pinned, a packet validly signed by the local
\* node with a fresh nonce and an in-window timestamp is admitted, whatever
\* was processed before.
C10_SelfTrafficAdmitted ==
    Registered(LocalId) =>
        \A packet \in Packets(seen_nonces, now) :
          \A out \in {Outcome(packet)} :
            (/\ packet.node_id = LocalId
             /\ packet.signature = Sign("kL", packet.payload, packet.timestamp,
                                        packet.nonce)
             /\ InWindow(packet, now)
             /\ ~out.replay)
            => out.admit

\* C11: should_admit returns false for every packet whose node_id is neither
\* in the peer registry nor the local node id, and creates no registry entry
\* for that id.
C11_UnknownSenderRejected ==
    \A packet \in Packets(seen_nonces, now) :
        (~Registered(packet.node_id) /\ packet.node_id # LocalId) =>
            \A out \in {Outcome(packet)} :
                /\ ~out.admit
                /\ packet.node_id \notin DOMAIN out.registry

C11_Witness ==
    /\ admitLast.called
    /\ admitLast.node_id = "idP"
    /\ ~admitLast.replay
    /\ ~admitLast.result
    /\ ~Registered("idP")
    /\ seen_nonces # EmptyMap

(***************************************************************************)
(* Claims about the mesh.                                                  *)
(***************************************************************************)

\* what handle_message would do with msg at node n in the current state
MeshOutcome(n, msg) ==
    HandleMessage(n, peers[n], replay_cache[n], msg, fresh)

TrustOf(n, p) == peers[n][Identity(p).id].trust_level

\* C1: when A has learned B through a Discovery, calls
\* initiate_handshake(B), and the resulting Syn, SynAck and Ack are each
\* delivered once, in order, to handle_message of the other node, then A
\* holds B as Authenticated and B holds A as Authenticated.
C1_HandshakeCompletion ==
    run.phase = 5 =>
        /\ Identity(run.b).id \in DOMAIN peers[run.a]
        /\ Identity(run.a).id \in DOMAIN peers[run.b]
        /\ TrustOf(run.a, run.b) = Authenticated
        /\ TrustOf(run.b, run.a) = Authenticated

C1_Witness ==
    /\ run.phase = 5
    /\ TrustOf(run.a, run.b) = Authenticated
    /\ TrustOf(run.b, run.a) = Authenticated
    /\ peers[run.a][Identity(run.b).id].shared_secret =
           peers[run.b][Identity(run.a).id].shared_secret

\* the challenge of a SynAck decrypts, under the secret n shares with the
\* sender, to a 16-byte nonce that n itself sent to that sender in a Syn
AnswersOwnSyn(n, msg) ==
    /\ msg.sender \in DOMAIN peers[n]
    /\ msg.payload.challenge.present
    /\ \E d \in {DecryptMessage(peers[n][msg.sender].shared_secret,
                               msg.payload.challenge)} :
        d.ok /\ d.len = 16 /\ <<msg.sender, d.val>> \in synSent[n]

\* C2: a SynAck makes the receiver authenticate the sender and enqueue an
\* Ack only if its challenge decrypts to the nonce the receiver sent in its
\* own Syn to that peer; otherwise the trust level is unchanged and no Ack
\* is enqueued.
C2_SynAckAnswersOwnSyn ==
    \A n \in Nodes : \A msg \in Candidates(n) :
        (msg.msg_type = "Handshake" /\ msg.payload.kind = "SynAck"
         /\ ~AnswersOwnSyn(n, msg)) =>
            \A out \in {MeshOutcome(n, msg)} :
                /\ out.reply = <<>>
                /\ msg.sender \in DOMAIN peers[n] =>
                       out.peers[msg.sender].trust_level =
                           peers[n][msg.sender].trust_level

\* C5: a message from a sender in the peer table whose signature does not
\* verify under the stored signing key is dropped and the sender becomes
\* Blacklisted.
C5_BadSignatureBlacklists ==
    \A n \in Nodes : \A msg \in Candidates(n) :
        (/\ msg.sender \in DOMAIN peers[n]
         /\ ~VerifySignature(peers[n][msg.sender].signing_public,
                             msg.payload, msg.signature)) =>
            \A out \in {MeshOutcome(n, msg)} :
                /\ ~out.passed
                /\ out.peers[msg.sender].trust_level = Blacklisted

\* C6: a Blacklisted peer stays Blacklisted under authenticate,
\* update_trust and set_shared_secret, and under every inbound message
\* processed by handle_message.
C6_BlacklistedIsTerminal ==
    \A n \in Nodes : \A id \in DOMAIN peers[n] :
        peers[n][id].trust_level = Blacklisted =>
            /\ Authenticate(peers[n][id]).trust_level = Blacklisted
            /\ \A delta \in {-45, 30} :
                   UpdateTrust(peers[n][id], delta).trust_level = Blacklisted
            /\ SetSharedSecret(peers[n][id],
                   DeriveShared(n, peers[n][id].exchange_public)).trust_level
                       = Blacklisted
            /\ \A msg \in Candidates(n) :
                   MeshOutcome(n, msg).peers[id].trust_level = Blacklisted

\* C7: processing an inbound message never lowers the trust level of a
\* peer that is not being blacklisted, and never resets its trust score.
C7_TrustMovesForward ==
    \A n \in Nodes : \A msg \in Candidates(n) :
        \A out \in {MeshOutcome(n, msg)} :
            \A id \in DOMAIN peers[n] :
                out.peers[id].trust_level # Blacklisted =>
                    /\ out.peers[id].trust_level >= peers[n][id].trust_level
                    /\ out.peers[id].trust_score = peers[n][id].trust_score

\* C9: every message sent on the inbox channel of a node has passed the
\* reputation filter, the signature check and the replay check of
\* handle_message in that step.
C9_InboxBehindChecks ==
    [][\A n \in Nodes :
         inbox'[n] # inbox[n] =>
            \E m \in {inbox'[n][Len(inbox'[n])]} :
                /\ ~LowReputation(peers[n], m.sender)
                /\ ~BadSignature(peers[n], m)
                /\ m.nonce \notin replay_cache[n].seen
                /\ m.nonce \in replay_cache'[n].seen]_vars

\* C12: for a peer with any trust level and any score in [0,100], saving
\* the table and restarting yields a peer with the same id, trust level and
\* trust score.
C12_ReputationRoundTrip ==
    unit_peer.trust_score \in 0..100 =>
        \A table \in {Put(EmptyMap, unit_peer.id, unit_peer)} :
        \A reloaded \in {Reload(Snapshot(table))} :
            /\ DOMAIN reloaded = DOMAIN table
            /\ reloaded[unit_peer.id].trust_level = unit_peer.trust_level
            /\ reloaded[unit_peer.id].trust_score = unit_peer.trust_score

\* the score update_trust must produce: the sum, limited to [0,100]
ExpectedScore(score, delta) ==
    IF score + delta < 0 THEN 0
    ELSE IF score + delta > 100 THEN 100 ELSE score + delta

C19_ScoreClamped ==
    /\ unit_peer.trust_score \in 0..100
    /\ \A delta \in I8 :
           UpdateTrust(unit_peer, delta).trust_score =
               ExpectedScore(unit_peer.trust_score, delta)

C19_Witness ==
    /\ unit_last.op = "update_trust"
    /\ unit_last.arg = I8Max
    /\ unit_last.before.trust_score + unit_last.arg > 100
    /\ unit_peer.trust_score = 100

(***************************************************************************)
(* Claims about Direct messages and the reputation store                   *)
(***************************************************************************)

\* what send_direct(recipient, content) would do at node n in the current
\* state
SendOutcome(n, recipient, content) ==
    SendDirectFn(n, peers[n], sequence[n], recipient, content, fresh)

\* C17: send_direct(recipient, content) enqueues one message whose payload
\* is the AEAD encryption of the content under the stored shared secret when
\* the recipient is in the peer table with a secret, and the plaintext
\* content when it is in the table without one; when the recipient is not in
\* the table it returns an error, enqueues nothing and leaves the sequence
\* counter unchanged.
C17_SendDirectPayload ==
    \A n \in Nodes : \A recipient \in Ids : \A content \in Contents :
        \A r \in {SendOutcome(n, recipient, content)} :
            IF recipient \notin DOMAIN peers[n]
            THEN /\ r.res = "Err"
                 /\ r.msgs = <<>>
                 /\ r.sequence = sequence[n]
            ELSE /\ r.res = "Ok"
                 /\ Len(r.msgs) = 1
                 /\ r.msgs[1].msg_type = "Direct"
                 /\ r.msgs[1].recipient = recipient
                 /\ IF peers[n][recipient].shared_secret # NoSecret
                    THEN /\ r.msgs[1].payload.challenge.present
                         /\ r.msgs[1].payload.nonce = 0
                         /\ \E d \in {DecryptMessage(
                                          peers[n][recipient].shared_secret,
                                          r.msgs[1].payload.challenge)} :
                                d.ok /\ d.val = content
                    ELSE /\ ~r.msgs[1].payload.challenge.present
                         /\ r.msgs[1].payload.nonce = content

\* A has sent a Direct message to a peer it shares a secret with, and the
\* message on its outbox decrypts under that secret
C17_Witness ==
    /\ sequence["A"] >= 1
    /\ \E i \in 1 .. Len(outbox["A"]) :
          /\ outbox["A"][i].msg_type = "Direct"
          /\ outbox["A"][i].recipient \in DOMAIN peers["A"]
          /\ peers["A"][outbox["A"][i].recipient].shared_secret # NoSecret
          /\ DecryptMessage(
                 peers["A"][outbox["A"][i].recipient].shared_secret,
                 outbox["A"][i].payload.challenge).ok

\* C13: whenever handle_message gets past the reputation filter, the
\* signature check and the replay check (the nonce enters the replay cache)
\* and dispatches the message, the reputation store holds, when it returns,
\* the id, trust_level and trust_score of every peer of the table as the
\* handler left it, also when the handler returned an error.
C13_SnapshotAfterDispatch ==
    [][\A n \in Nodes :
          replay_cache'[n] # replay_cache[n] =>
              /\ DOMAIN reputation'[n] = DOMAIN peers'[n]
              /\ \A id \in DOMAIN peers'[n] :
                    /\ reputation'[n][id].trust_level =
                           peers'[n][id].trust_level
                    /\ reputation'[n][id].trust_score =
                           peers'[n][id].trust_score]_vars

\* a handler of B has returned an error, and B's store holds the table B
\* has now, with a peer that a handshake authenticated
C13_Witness ==
    /\ erred["B"]
    /\ DOMAIN reputation["B"] = DOMAIN peers["B"]
    /\ \E id \in DOMAIN peers["B"] :
          /\ peers["B"][id].trust_level = Authenticated
          /\ reputation["B"][id].trust_level = Authenticated

(***************************************************************************)
(* Claims about the replay caches and the identity file                    *)
(***************************************************************************)

\* the nonces of a sequence
Range(seq) == {seq[i] : i \in 1 .. Len(seq)}

\* the last k elements of a sequence (all of it when it is shorter)
LastOf(seq, k) ==
    IF Len(seq) <= k THEN seq ELSE SubSeq(seq, Len(seq) - k + 1, Len(seq))

\* C14: check_and_add(n) returns true if and only if n is not among the
\* tracked nonces, and then tracks n; a presentation that returns false
\* leaves the cache as it was.
C14_AcceptedOncePerResidence ==
    /\ \A nonce \in UnitNonces :
          \A r \in {CheckAndAdd(unit_cache, nonce)} :
              /\ r.unique <=> nonce \notin unit_cache.seen
              /\ r.unique => nonce \in r.cache.seen
              /\ ~r.unique => r.cache = unit_cache
    /\ unit_call.nonce # 0 =>
          /\ unit_call.unique <=> unit_call.nonce \notin unit_call.before.seen
          /\ unit_call.unique => unit_call.nonce \in unit_cache.seen
          /\ ~unit_call.unique => unit_cache = unit_call.before

\* a tracked nonce was presented again and refused
C14_Witness ==
    /\ unit_call.nonce # 0
    /\ ~unit_call.unique
    /\ unit_call.nonce \in Range(unit_accepted)
    /\ unit_cache = unit_call.before

\* C15: the cache never tracks more than Capacity nonces, its set and its
\* queue hold the same nonces without duplicates, the queue is the most
\* recently accepted nonces in order of acceptance, and once Capacity + 1
\* distinct nonces have been accepted in a row the first of them is
\* admissible again while the Capacity latest are still refused.
C15_FifoEviction ==
    /\ Len(unit_cache.order) <= Capacity
    /\ unit_cache.seen = Range(unit_cache.order)
    /\ Cardinality(unit_cache.seen) = Len(unit_cache.order)
    /\ unit_cache.order = LastOf(unit_accepted, Capacity)
    /\ \A run_ \in {LastOf(unit_accepted, Capacity + 1)} :
          (Len(run_) = Capacity + 1 /\ Cardinality(Range(run_)) = Capacity + 1)
              => /\ CheckAndAdd(unit_cache, run_[1]).unique
                 /\ \A i \in 2 .. Capacity + 1 :
                       ~CheckAndAdd(unit_cache, run_[i]).unique

\* Capacity + 1 distinct nonces were accepted, and the first is out
C15_Witness ==
    /\ Len(unit_accepted) = Capacity + 1
    /\ Cardinality(Range(unit_accepted)) = Capacity + 1
    /\ unit_accepted[1] \notin unit_cache.seen
    /\ Len(unit_cache.order) = Capacity

\* C16: is_replay(n) returns true exactly when n was recorded (presented
\* and answered false) less than 300 seconds before; the first presentation
\* and any presentation 300 seconds or more after the record return false.
C16_ReplayWithinWindow ==
    unit_replay.called =>
        (unit_replay.replay <=>
            /\ unit_replay.nonce \in DOMAIN unit_replay.before
            /\ unit_replay.at - unit_replay.before[unit_replay.nonce]
                   < ReplayWindow)

\* a nonce presented again exactly 300 seconds after its record is accepted
C16_Witness ==
    /\ unit_replay.called
    /\ ~unit_replay.replay
    /\ unit_replay.nonce \in DOMAIN unit_replay.before
    /\ unit_replay.at - unit_replay.before[unit_replay.nonce] = ReplayWindow

C21_SameIdentityEveryBoot ==
    /\ Cardinality(DOMAIN disk) <= 1
    /\ boot.called =>
          /\ boot.res = "Ok" =>
                /\ boot.identity.id \in DOMAIN disk
                /\ disk[boot.identity.id].identity = boot.identity
          /\ IF DOMAIN boot.before = {}
             THEN /\ boot.res = "Ok"
                  /\ DOMAIN disk = {boot.identity.id}
                  /\ disk[boot.identity.id].hardware_seal =
                         FingerprintHash(boot.fp)
             ELSE /\ disk = boot.before
                  /\ (\A dir \in DOMAIN boot.before :
                         boot.before[dir].hardware_seal =
                             FingerprintHash(boot.fp))
                        => /\ boot.res = "Ok"
                           /\ boot.identity.id \in DOMAIN boot.before

\* a boot on the sealed hardware found the identity file and returned its
\* identity
C21_Witness ==
    /\ boot.called
    /\ DOMAIN boot.before # {}
    /\ boot.res = "Ok"
    /\ disk = boot.before
    /\ boot.identity.id \in DOMAIN boot.before

(***************************************************************************)
(* Claims about concurrent calls, the outbox channel and the locks         *)
(***************************************************************************)

\* the tasks suspended in a send on the outbox
Suspended == {t \in Tasks : task[t].pc \in {"send", "send_locked"}}

\* C22: the outbox never holds more than its capacity; every message whose
\* send has returned was enqueued, exactly once; the messages received
\* followed by the messages still queued are the messages enqueued, in the
\* order they were enqueued (nothing dropped, overwritten or reordered); a
\* producer whose message is not yet enqueued is still suspended in its
\* send.
C22_OutboxBoundedFifo ==
    /\ Len(chan) <= OutboxCap
    /\ enqueued = received \o chan
    /\ Cardinality(Range(enqueued)) = Len(enqueued)
    /\ returned = Range(enqueued)
    /\ \A t \in Suspended : task[t].msg \notin Range(enqueued)
    /\ \A m \in 1 .. made :
          m \in Range(enqueued) \/ \E t \in Suspended : task[t].msg = m

\* a producer was suspended on a full outbox, the receiver took a message,
\* and the producer's message was then enqueued behind the others
C22_Witness ==
    /\ Len(received) >= 1
    /\ Len(enqueued) = OutboxCap + 1
    /\ Len(chan) = OutboxCap
    /\ \E t \in Suspended : task[t].msg \notin Range(enqueued)

\* the operations C23 speaks of
ReturningOps ==
    {"send_thought", "broadcast", "send_direct", "initiate_handshake",
     "handle_message"}

\* C23: under fair scheduling every call to send_thought, broadcast,
\* send_direct, initiate_handshake and handle_message eventually returns,
\* in the node as wired by main.
C23_EveryCallReturns ==
    \A t \in Tasks :
        (task[t].op \in ReturningOps) ~> (task[t].pc = "idle")

\* C24: no task is suspended in an outbox send while it holds the write
\* lock of the peer table, and no task awaits the transport bind while it
\* holds the write lock of the running flag.
C24_NoLockAcrossSuspension ==
    \A t \in Tasks :
        /\ task[t].pc \in {"send", "send_locked"} => lock_peers # t
        /\ task[t].pc = "bind" => lock_running # t

(***************************************************************************)
(* Claims about the UnifiedTrustManager                                    *)
(***************************************************************************)

\* C25: for a peer at trust level New (just registered), evaluate_trust
\* with packet type SYN returns allowed with trust_level New, and with any
\* other packet type it refuses.
C25_NewPeerMaySendSyn ==
    (evaluation.called /\ evaluation.level = "New") =>
        IF evaluation.packet_type = "SYN"
        THEN evaluation.result = [allowed |-> TRUE, trust_level |-> "New"]
        ELSE ~evaluation.result.allowed

(***************************************************************************)
(* Further claims about admission and the handshake                        *)
(***************************************************************************)

\* C30: should_admit returns false for every packet whose timestamp is more
\* than 300 seconds before or after the current time, also when its
\* signature is valid, and such a packet does not increase the sender's
\* packet_count nor promote it.
C30_OutOfWindowRejected ==
    \A packet \in Packets(seen_nonces, now) :
        ~InWindow(packet, now) =>
            \A out \in {Outcome(packet)} :
                /\ ~out.admit
                /\ Registered(packet.node_id) =>
                      /\ out.registry[packet.node_id].packet_count =
                             peer_registry[packet.node_id].packet_count
                      /\ (peer_registry[packet.node_id].trust_level = "New"
                            => out.registry[packet.node_id].trust_level
                                   # "Probation")

IsSyn(msg) == msg.msg_type = "Handshake" /\ msg.payload.kind = "Syn"

IsAck(msg) == msg.msg_type = "Handshake" /\ msg.payload.kind = "Ack"

\* C26: a Syn whose envelope signature does not verify over its payload
\* under the signing_public embedded in that Syn changes nothing: no peer
\* is created or updated, no secret derived, no SynAck enqueued; also when
\* the sender is not in the peer table.
C26_SynNeedsValidSignature ==
    \A n \in Nodes : \A msg \in Candidates(n) :
        (/\ IsSyn(msg)
         /\ ~VerifySignature(msg.payload.signing_public, msg.payload,
                             msg.signature)) =>
            \A out \in {MeshOutcome(n, msg)} :
                /\ out.peers = peers[n]
                /\ out.reply = <<>>

\* C27: an Ack from a peer whose Syn this node has not answered with a
\* SynAck leaves that peer's trust level unchanged.
C27_AckNeedsExchange ==
    \A n \in Nodes : \A msg \in Candidates(n) :
        (/\ IsAck(msg)
         /\ msg.sender \in DOMAIN peers[n]
         /\ msg.sender \notin answered[n]) =>
            \A out \in {MeshOutcome(n, msg)} :
                out.peers[msg.sender].trust_level =
                    peers[n][msg.sender].trust_level

\* C29: handle_message dispatches a message from a sender in the peer
\* table only if its signature is a 64-byte signature that verifies over
\* the payload under that peer's stored signing_public.
C29_KnownSenderNeedsSignature ==
    \A n \in Nodes : \A msg \in Candidates(n) :
        (/\ msg.sender \in DOMAIN peers[n]
         /\ MeshOutcome(n, msg).passed) =>
            /\ IsSig64(msg.signature)
            /\ VerifySignature(peers[n][msg.sender].signing_public,
                               msg.payload, msg.signature)

\* C28: a Syn whose signing_public does not hash to the envelope's sender
\* id creates or updates no peer, stores no shared secret and enqueues no
\* SynAck.
C28_IdMismatchIgnored ==
    \A n \in Nodes : \A msg \in Candidates(n) :
        (IsSyn(msg) /\ NodeId(msg.payload.signing_public) # msg.sender) =>
            \A out \in {MeshOutcome(n, msg)} :
                /\ out.peers = peers[n]
                /\ out.reply = <<>>

\* B holds an authenticated peer, and a Syn whose signing key does not
\* hash to its sender id gets past the checks of handle_message, is
\* dispatched, and leaves the table as it is
C28_Witness ==
    /\ \E id \in DOMAIN peers["B"] : peers["B"][id].trust_level = Authenticated
    /\ \E msg \in Candidates("B") :
          /\ IsSyn(msg)
          /\ NodeId(msg.payload.signing_public) # msg.sender
          /\ MeshOutcome("B", msg).passed
          /\ MeshOutcome("B", msg).peers = peers["B"]

(***************************************************************************)
(* Frame conditions and table invariants                                   *)
(***************************************************************************)

\* C31: a packet that should_admit rejects as a replay leaves the peer
\* registry unchanged, the entry of the peer named in its header included.
C31_ReplayLeavesRegistry ==
    \A packet \in Packets(seen_nonces, now) :
        Outcome(packet).replay => Outcome(packet).registry = peer_registry

\* C32: handle_message on a message whose sender is in the peer table as
\* Blacklisted, or with a trust_score below 10, has no effect: the nonce is
\* not recorded, the peer table is unchanged, nothing goes to the inbox or
\* the outbox, and the reputation file is not rewritten.
C32_LowReputationNoEffect ==
    \A n \in Nodes : \A msg \in Candidates(n) :
        (/\ msg.sender \in DOMAIN peers[n]
         /\ \/ peers[n][msg.sender].trust_level = Blacklisted
            \/ peers[n][msg.sender].trust_score < 10) =>
            \A out \in {MeshOutcome(n, msg)} :
                /\ out.cache = replay_cache[n]
                /\ out.peers = peers[n]
                /\ out.inbox = <<>>
                /\ out.reply = <<>>
                /\ ~out.saved

\* a node holds a peer that is not Blacklisted but has a score below 10,
\* and a message from it with an untracked nonce and no verifiable
\* signature fault is at hand
C32_Witness ==
    \E n \in Nodes : \E msg \in Candidates(n) :
        /\ msg.sender \in DOMAIN peers[n]
        /\ peers[n][msg.sender].trust_level # Blacklisted
        /\ peers[n][msg.sender].trust_score < 10
        /\ ~BadSignature(peers[n], msg)
        /\ msg.nonce \notin replay_cache[n].seen
        /\ ~MeshOutcome(n, msg).passed

\* C33: every peer in the PeerTable satisfies
\* identity.id = hex(sha256(identity.signing_public)), in every state
\* reachable by processing inbound messages.
C33_IdBoundToKey ==
    \A n \in Nodes : \A id \in DOMAIN peers[n] :
        /\ peers[n][id].id = id
        /\ peers[n][id].id = NodeId(peers[n][id].signing_public)

\* C34: in every reachable state a peer whose status is Connected has a
\* shared secret.
C34_ConnectedHasSecret ==
    unit_peer.status = "Connected" => unit_peer.shared_secret # NoSecret

\* C35: after a successful boot the node's public identity is the one
\* derived from the loaded secret bytes, after genesis and after loading
\* identity.key; a file whose recorded identity does not match its secret
\* bytes is refused.
C35_IdentityMatchesSecrets ==
    (boot.called /\ boot.res = "Ok") =>
        boot.identity = SecretsIdentity(boot.secrets)

\* C36: at no moment does a file holding secret key bytes exist on disk
\* with a mode other than owner-only (0600).
C36_SecretFilesOwnerOnly ==
    \A f \in KeyFiles :
        (files[f].exists /\ files[f].secret) => files[f].mode = OwnerOnly

(***************************************************************************)
(* Concurrent callers: the sequence counter and the replay check           *)
(***************************************************************************)

\* C37: the sequence numbers given out by next_sequence to send_thought,
\* broadcast and send_direct are pairwise distinct and strictly increasing
\* in the order the counter is taken, starting at 1, for any interleaving
\* of concurrent callers.
C37_SequenceStrictlyIncreasing ==
    /\ taken # <<>> => taken[1] = 1
    /\ \A i \in 1 .. Len(taken) : \A j \in 1 .. Len(taken) :
           i < j => taken[i] < taken[j]

\* two callers have each taken a number and are both suspended at the
\* send, after an earlier call had taken one
C37_Witness ==
    /\ Len(taken) >= 3
    /\ \A t \in Tasks :
           /\ task[t].op \in {"send_thought", "broadcast", "send_direct"}
           /\ task[t].pc = "send"

\* how often x occurs in the sequence q
Occurrences(q, x) == Cardinality({i \in 1 .. Len(q) : q[i] = x})

\* C38: of the handle_message calls, sequential or concurrent, that carry
\* the same nonce while the replay cache tracks it, at most one is
\* dispatched: a nonce is accepted again only after more than Capacity
\* later acceptances have evicted it, and no more messages with a nonce are
\* dispatched, or on their way to the handler, than the cache accepted.
C38_OneDispatchPerNonce ==
    /\ \A i \in 1 .. Len(unit_accepted) : \A j \in 1 .. Len(unit_accepted) :
           (i < j /\ unit_accepted[i] = unit_accepted[j]) => j - i > Capacity
    /\ \A nonce \in HandlerNonces :
           Occurrences(dispatched, nonce)
             + Cardinality({t \in Tasks : /\ handling[t].pc = "dispatch"
                                          /\ handling[t].nonce = nonce})
               <= Occurrences(unit_accepted, nonce)

\* both tasks went through the replay check with the same nonce at the
\* same time: one message was dispatched, the other call was dropped, and
\* the nonce is still tracked
C38_Witness ==
    /\ \E nonce \in HandlerNonces :
          /\ dispatched = <<nonce>>
          /\ unit_accepted = <<nonce>>
          /\ nonce \in unit_cache.seen
          /\ unit_call.nonce = nonce
          /\ ~unit_call.unique
    /\ \A t \in Tasks : handling[t].pc = "idle"

(***************************************************************************)
(* Malformed input                                                         *)
(***************************************************************************)

\* the Discovery messages that carry one key of the wrong length
MalformedDiscoveries(n) ==
    {AiMessage("Discovery", x[1], Identity(n).id,
               Payload("Discovery", x[1], x[2][1], x[2][2], 0, NoChallenge),
               NoSig, fresh) :
        x \in (Ids \ {Identity(n).id})
               \X {<<ShortKey, SPub("E")>>, <<XPub("E"), ShortKey>>}}

\* C39: a Discovery message carrying a key that does not decode to 32
\* bytes is dropped: handle_message returns, without a panic, and the peer
\* table is unchanged.
C39_MalformedKeyDropped ==
    \A n \in Nodes : \A msg \in MalformedDiscoveries(n) :
        \A out \in {MeshOutcome(n, msg)} :
            /\ out.res # "Panic"
            /\ out.peers = peers[n]

(***************************************************************************)
(* The resource manager                                                    *)
(***************************************************************************)

\* C40: allocate_resource and release_expired_allocations never deadlock:
\* in no reachable state does an allocation hold resource_pools and wait
\* for allocations while the sweep holds allocations and waits for
\* resource_pools.
C40_NoLockOrderDeadlock ==
    ~ \E t \in Tasks :
        /\ rm_lock["resource_pools"] = t
        /\ rm_pc[t] = "want_allocations"
        /\ rm_lock["allocations"] = Sweeper
        /\ rm_pc[Sweeper] = "want_pools"

====
